---- MODULE Spec2Model ----
(***************************************************************************)
(* A model of fhir_query: the resource store (ResourceDB), the paginated,  *)
(* retrying query executor (GraphDefinitionRunner.execute_query) and the   *)
(* recursive graph traversal (GraphDefinitionRunner.process_links / run).  *)
(*                                                                         *)
(* A resource is a record (a JSON object): its fields are its DOMAIN.  The  *)
(* string "Type/id" is the pair <<Type, id>>, and a FHIR Reference is the  *)
(* object [reference |-> <<Type, id>>].  A query URL is the record of its  *)
(* parts (target type, params template, substituted keys).                 *)
(***************************************************************************)
EXTENDS Integers, Sequences, FiniteSets, TLC

VARIABLES
    \* ---- ResourceDB
    rows,           \* the 'resources' table, in insertion order
    adds_counters,  \* ResourceDB.adds_counters (defaultdict(int))
    addLog,         \* history: the add() calls made directly on the store, with their outcome
    \* ---- inputs of a run, fixed by Init
    graph,          \* graph_definition["link"]
    startPath,      \* the `path` argument of run ("" when there is none)
    server,         \* what the remote API answers
    \* ---- the network's remaining freedom to misbehave
    timeoutsLeft,   \* timed-out attempts the network may still produce
    fatalsLeft,     \* non-timeout failures the network may still produce
    \* ---- GraphDefinitionRunner.run / process_links (the main coroutine)
    pc,             \* where the main coroutine is
    error,          \* the exception that ended the run ("" when none)
    visited,        \* the `visited` set of run
    stack,          \* the process_links activations, outermost first
    tasks,          \* the execute_query calls the main coroutine awaits
    \* ---- history of the run
    queries,        \* every query dispatched by process_links, with its status
    extractions,    \* every (Visit Record, link) whose join key was looked up
    \* ---- the progress reporter
    spinner,        \* the `spinner` argument of run: TRUE a Halo, FALSE None
    debug,          \* GraphDefinitionRunner.debug
    reported,       \* history: the texts the reporter was started with
    \* ---- the user of the runner
    reads,          \* history: the last answer of each read operation of the store
    previous        \* history: the runs already over on this store, oldest first

storeVars == <<rows, adds_counters>>
inputVars == <<graph, startPath, server, spinner, debug>>
netVars   == <<timeoutsLeft, fatalsLeft>>
runVars   == <<pc, error, visited, stack, tasks>>
histVars  == <<queries, extractions>>
logVars   == <<addLog, reported, reads, previous>>
vars      == <<rows, adds_counters, addLog, graph, startPath, server,
               timeoutsLeft, fatalsLeft, pc, error, visited, stack, tasks,
               queries, extractions, spinner, debug, reported, reads, previous>>

(***************************************************************************)
(* Program constants.                                                      *)
(***************************************************************************)
chunk_size == 50
max_requests == 10
max_retry == 3
sleep_seconds == 5

(***************************************************************************)
(* Bounds of the model.                                                    *)
(***************************************************************************)
\* The interpreter's recursion limit, scaled down: the deepest nesting of
\* process_links activations before RecursionError is raised.
MaxDepth == 7
\* Timed-out attempts the network may produce in one run.
MaxTimeouts == 3
\* Non-timeout failures the network may produce in one run.
MaxFatal == 1
\* add() calls made directly on the store (SpecStore).
MaxAdds == 3
\* Calls of run on one store.
MaxRuns == 2

ResourceTypes == {"Patient", "Specimen", "Observation"}

NoValue == "<none>"

(***************************************************************************)
(* Generic helpers.                                                        *)
(***************************************************************************)
Range(s) == {s[i] : i \in 1..Len(s)}

RECURSIVE Flatten(_)
Flatten(ss) == IF ss = <<>> THEN <<>> ELSE Head(ss) \o Flatten(Tail(ss))

SelectIdx(s, Test(_)) == {i \in 1..Len(s) : Test(s[i])}

(***************************************************************************)
(* The shape of the documents: isinstance(v, dict) for the value v found   *)
(* under `key` in the object found under `parent` ("" for the resource     *)
(* itself).  subject is a Reference ({"reference": "Patient/1"}); device   *)
(* is a CodeableReference ({"concept": ..., "reference": {"reference":     *)
(* "Device/1"}}); every other value is a string.                           *)
(***************************************************************************)
IsObject(parent, key) ==
    \/ parent = "" /\ key \in {"subject", "device"}
    \/ parent = "device" /\ key = "reference"

(***************************************************************************)
(* ResourceDB                                                              *)
(***************************************************************************)
\* json.dumps / json.loads: the stored column holds the serialised text of
\* the document, not the document.
json_dumps(resource) == <<"json", resource>>
json_loads(text) == text[2]

\* The (id, resource_type) PRIMARY KEY of the table.
RowKey(row) == <<row.id, row.resource_type>>

\* Mutant: the table without its primary key.
InsertVerdict_NoPrimaryKey(table, resource) ==
    IF resource.id = NoValue \/ resource.resourceType = NoValue
    THEN "NOT NULL constraint failed"
    ELSE "ok"

\* Mutant: the primary key is the id alone.
InsertVerdict_KeyIsId(table, resource) ==
    IF resource.id = NoValue \/ resource.resourceType = NoValue
    THEN "NOT NULL constraint failed"
    ELSE IF \E i \in 1..Len(table) : table[i].id = resource.id
    THEN "UNIQUE constraint failed"
    ELSE "ok"

\* sqlite's verdict on INSERT INTO resources: NOT NULL on every column, and
\* the primary key unique.
InsertVerdict(table, resource) ==
    IF resource.id = NoValue \/ resource.resourceType = NoValue
    THEN "NOT NULL constraint failed"
    ELSE IF \E i \in 1..Len(table) : RowKey(table[i]) = <<resource.id, resource.resourceType>>
    THEN "UNIQUE constraint failed"
    ELSE "ok"

\* Mutant: add without its check of the two fields (lines 74-75): the
\* lookup resource["id"] of the INSERT is what fails.
add_Unvalidated(db, resource) ==
    IF "id" \notin DOMAIN resource \/ "resourceType" \notin DOMAIN resource
    THEN [rows |-> db.rows, adds_counters |-> db.adds_counters, raised |-> "KeyError"]
    ELSE LET verdict == InsertVerdict(db.rows, resource) IN
         IF verdict = "ok"
         THEN [rows |-> Append(db.rows,
                          [id |-> resource.id,
                           resource_type |-> resource.resourceType,
                           key |-> <<resource.resourceType, resource.id>>,
                           resource |-> json_dumps(resource)]),
               adds_counters |-> [db.adds_counters EXCEPT ![resource.resourceType] = @ + 1],
               raised |-> ""]
         ELSE IF verdict = "UNIQUE constraint failed"
         THEN [rows |-> db.rows, adds_counters |-> db.adds_counters, raised |-> ""]
         ELSE [rows |-> db.rows, adds_counters |-> db.adds_counters, raised |-> "IntegrityError"]

\* Mutant: INSERT OR REPLACE, the row of a key that is already stored takes
\* the new payload.
add_Upsert(db, resource) ==
    IF "id" \notin DOMAIN resource \/ "resourceType" \notin DOMAIN resource
    THEN [rows |-> db.rows, adds_counters |-> db.adds_counters, raised |-> "ValueError"]
    ELSE LET verdict == InsertVerdict(db.rows, resource) IN
         IF verdict = "ok"
         THEN [rows |-> Append(db.rows,
                          [id |-> resource.id,
                           resource_type |-> resource.resourceType,
                           key |-> <<resource.resourceType, resource.id>>,
                           resource |-> json_dumps(resource)]),
               adds_counters |-> [db.adds_counters EXCEPT ![resource.resourceType] = @ + 1],
               raised |-> ""]
         ELSE IF verdict = "UNIQUE constraint failed"
         THEN [rows |-> [i \in 1..Len(db.rows) |->
                           IF RowKey(db.rows[i]) = <<resource.id, resource.resourceType>>
                           THEN [db.rows[i] EXCEPT !.resource = json_dumps(resource)]
                           ELSE db.rows[i]],
               adds_counters |-> db.adds_counters, raised |-> ""]
         ELSE [rows |-> db.rows, adds_counters |-> db.adds_counters, raised |-> "IntegrityError"]

\* Mutant: add without its handler of sqlite3.IntegrityError (lines 92-96).
add_ConflictRaises(db, resource) ==
    IF "id" \notin DOMAIN resource \/ "resourceType" \notin DOMAIN resource
    THEN [rows |-> db.rows, adds_counters |-> db.adds_counters, raised |-> "ValueError"]
    ELSE LET verdict == InsertVerdict(db.rows, resource) IN
         IF verdict = "ok"
         THEN [rows |-> Append(db.rows,
                          [id |-> resource.id,
                           resource_type |-> resource.resourceType,
                           key |-> <<resource.resourceType, resource.id>>,
                           resource |-> json_dumps(resource)]),
               adds_counters |-> [db.adds_counters EXCEPT ![resource.resourceType] = @ + 1],
               raised |-> ""]
         ELSE [rows |-> db.rows, adds_counters |-> db.adds_counters, raised |-> "IntegrityError"]

\* Mutant: the counter counts the calls that do not raise, the duplicates
\* among them.
add_CountsDuplicates(db, resource) ==
    IF "id" \notin DOMAIN resource \/ "resourceType" \notin DOMAIN resource
    THEN [rows |-> db.rows, adds_counters |-> db.adds_counters, raised |-> "ValueError"]
    ELSE LET verdict == InsertVerdict(db.rows, resource) IN
         IF verdict = "ok"
         THEN [rows |-> Append(db.rows,
                          [id |-> resource.id,
                           resource_type |-> resource.resourceType,
                           key |-> <<resource.resourceType, resource.id>>,
                           resource |-> json_dumps(resource)]),
               adds_counters |-> [db.adds_counters EXCEPT ![resource.resourceType] = @ + 1],
               raised |-> ""]
         ELSE IF verdict = "UNIQUE constraint failed"
         THEN [rows |-> db.rows,
               adds_counters |-> [db.adds_counters EXCEPT ![resource.resourceType] = @ + 1],
               raised |-> ""]
         ELSE [rows |-> db.rows, adds_counters |-> db.adds_counters, raised |-> "IntegrityError"]

\* ResourceDB.add: the store after the call and what the call raised.
add(db, resource) ==
    IF "id" \notin DOMAIN resource \/ "resourceType" \notin DOMAIN resource
    THEN [rows |-> db.rows, adds_counters |-> db.adds_counters, raised |-> "ValueError"]
    ELSE LET verdict == InsertVerdict(db.rows, resource) IN
         IF verdict = "ok"
         THEN [rows |-> Append(db.rows,
                          [id |-> resource.id,
                           resource_type |-> resource.resourceType,
                           key |-> <<resource.resourceType, resource.id>>,
                           resource |-> json_dumps(resource)]),
               adds_counters |-> [db.adds_counters EXCEPT ![resource.resourceType] = @ + 1],
               raised |-> ""]
         ELSE IF verdict = "UNIQUE constraint failed"
         THEN [rows |-> db.rows, adds_counters |-> db.adds_counters, raised |-> ""]
         ELSE [rows |-> db.rows, adds_counters |-> db.adds_counters, raised |-> "IntegrityError"]

\* ResourceDB.all_resources
all_resources(table, resource_type) ==
    LET found == SelectSeq(table, LAMBDA row : row.resource_type = resource_type)
    IN [i \in 1..Len(found) |-> json_loads(found[i].resource)]

\* ResourceDB.count_resource_types: only the types that have a row appear.
count_resource_types(table) ==
    [t \in {table[i].resource_type : i \in 1..Len(table)} |->
        Cardinality({i \in 1..Len(table) : table[i].resource_type = t})]

EmptyCounters == [t \in ResourceTypes |-> 0]

(***************************************************************************)
(* ResourceDB.aggregate.  A dict is a function on its keys; d[k] = v is    *)
(* Put(d, k, v).                                                           *)
(***************************************************************************)
EmptyDict == [k \in {} |-> 0]

Put(d, k, v) == [x \in DOMAIN d \cup {k} |-> IF x = k THEN v ELSE d[x]]

\* nested_lookup(key, document): the values found under `key` at any depth.
\* A value found under the key is yielded, and an object is descended into
\* whether or not it was yielded.  Each value comes with what
\* isinstance(value, dict) will answer.
RECURSIVE nested_lookup_in(_, _, _, _)
nested_lookup_in(key, document, parent, keys) ==
    IF keys = {} THEN <<>>
    ELSE LET k == CHOOSE x \in keys : TRUE
             v == document[k]
             here == IF k = key
                     THEN <<[value |-> v, isdict |-> IsObject(parent, k)]>>
                     ELSE <<>>
             below == IF IsObject(parent, k)
                      THEN nested_lookup_in(key, v, k, DOMAIN v)
                      ELSE <<>>
         IN here \o below \o nested_lookup_in(key, document, parent, keys \ {k})

nested_lookup(key, document) == nested_lookup_in(key, document, "", DOMAIN document)

\* Lines 173-181, for one ref of one resource; `entry` is summary[resource_type].
CountRef(entry, found) ==
    LET ref == IF found.isdict THEN found.value.reference ELSE found.value
        ref_resource_type == ref[1]
        references == IF "references" \in DOMAIN entry THEN entry.references ELSE EmptyDict
        dst == IF ref_resource_type \in DOMAIN references
               THEN references[ref_resource_type]
               ELSE EmptyDict
        count == IF "count" \in DOMAIN dst THEN dst.count ELSE 0
    IN Put(entry, "references",
           Put(references, ref_resource_type, Put(dst, "count", count + 1)))

RECURSIVE CountRefs(_, _, _)
CountRefs(entry, refs, i) ==
    IF i > Len(refs) THEN entry ELSE CountRefs(CountRef(entry, refs[i]), refs, i + 1)

\* Lines 164-181, for one resource.
CountResource(summary, resource_type, resource) ==
    LET entry == IF resource_type \in DOMAIN summary THEN summary[resource_type] ELSE EmptyDict
        count == IF "count" \in DOMAIN entry THEN entry.count ELSE 0
        counted == Put(entry, "count", count + 1)
    IN Put(summary, resource_type,
           CountRefs(counted, nested_lookup("reference", resource), 1))

RECURSIVE CountResources(_, _, _, _)
CountResources(summary, resource_type, resources, i) ==
    IF i > Len(resources) THEN summary
    ELSE CountResources(CountResource(summary, resource_type, resources[i]),
                        resource_type, resources, i + 1)

\* Lines 162-163: for resource_type in count_resource_types.
RECURSIVE CountTypes(_, _, _)
CountTypes(summary, table, types) ==
    IF types = {} THEN summary
    ELSE LET resource_type == CHOOSE t \in types : TRUE IN
         CountTypes(CountResources(summary, resource_type,
                                   all_resources(table, resource_type), 1),
                    table, types \ {resource_type})

\* Mutant: the summary is kept on the object and filled further by the
\* next call.
nested_dict_Kept ==
    IF reads.aggregate = <<>> THEN EmptyDict ELSE reads.aggregate[1].result

\* summary = nested_dict(): a new, empty dict on every call.
nested_dict == EmptyDict

aggregate(table) == CountTypes(nested_dict, table, DOMAIN count_resource_types(table))

(***************************************************************************)
(* SpecStore: add() called directly with resources drawn from a small      *)
(* universe (two payloads under one key, one id under two types, and       *)
(* documents that lack a required field).                                  *)
(***************************************************************************)
StoreUniverse ==
    { [resourceType |-> "Patient", id |-> "1", name |-> "a"],
      [resourceType |-> "Patient", id |-> "1", name |-> "b"],
      [resourceType |-> "Patient", id |-> "2", name |-> "a"],
      [resourceType |-> "Specimen", id |-> "1", subject |-> [reference |-> <<"Patient", "1">>]],
      [resourceType |-> "Patient", name |-> "a"],
      [id |-> "1", name |-> "a"],
      [resourceType |-> "Patient", id |-> NoValue] }

\* No read operation has been called yet.
NoReads == [aggregate |-> <<>>, count_resource_types |-> <<>>, all_resources |-> <<>>]

Idle ==
    /\ graph = <<>> /\ startPath = "" /\ server = <<>> /\ spinner = FALSE
    /\ debug = FALSE
    /\ timeoutsLeft = 0 /\ fatalsLeft = 0
    /\ pc = "idle" /\ error = "" /\ visited = {} /\ stack = <<>> /\ tasks = <<>>
    /\ queries = <<>> /\ extractions = <<>>
    /\ reported = <<>> /\ reads = NoReads /\ previous = <<>>

InitStore ==
    /\ rows = <<>>
    /\ adds_counters = EmptyCounters
    /\ addLog = <<>>
    /\ Idle

\* One call of add() by a user of the store, with a resource of `universe`.
AddFrom(universe) ==
    /\ pc = "idle"
    /\ Len(addLog) < MaxAdds
    /\ \E resource \in universe :
         LET r == add([rows |-> rows, adds_counters |-> adds_counters], resource) IN
         /\ rows' = r.rows
         /\ adds_counters' = r.adds_counters
         /\ addLog' = Append(addLog, [resource |-> resource, raised |-> r.raised])
    /\ UNCHANGED <<inputVars, netVars, runVars, histVars, reported, reads, previous>>

AddCall == AddFrom(StoreUniverse)

\* The user of the store calls it while no run is under way.
Quiet == pc \in {"idle", "returned", "raised"}

\* One call of aggregate().  History: the summary returned, the size of
\* the table it was computed on, and whether the call before it was made
\* on a table of that size (no insert in between).
AggregateCall ==
    /\ Quiet
    /\ reads' = [reads EXCEPT !.aggregate =
          <<[result |-> aggregate(rows), rowsSeen |-> Len(rows),
             again |-> reads.aggregate # <<>> /\ reads.aggregate[1].rowsSeen = Len(rows)]>>]
    /\ UNCHANGED <<storeVars, addLog, reported, previous, inputVars, netVars, runVars,
                   histVars>>

\* One call of count_resource_types().
CountCall ==
    /\ Quiet
    /\ reads' = [reads EXCEPT !.count_resource_types =
          <<[result |-> count_resource_types(rows), rowsSeen |-> Len(rows)]>>]
    /\ UNCHANGED <<storeVars, addLog, reported, previous, inputVars, netVars, runVars,
                   histVars>>

\* One call of all_resources(resource_type).
AllResourcesCall(resource_type) ==
    /\ Quiet
    /\ reads' = [reads EXCEPT !.all_resources =
          <<[resource_type |-> resource_type,
             result |-> all_resources(rows, resource_type), rowsSeen |-> Len(rows)]>>]
    /\ UNCHANGED <<storeVars, addLog, reported, previous, inputVars, netVars, runVars,
                   histVars>>

NextStore == AddCall

SpecStore == InitStore /\ [][NextStore]_vars


(***************************************************************************)
(* The remote API.  `server` holds the pages it serves: the pages of the   *)
(* starting query and, per target type, the pages of a link query.  Like   *)
(* the test double of tests/unit/conftest.py, it answers by the path and   *)
(* the parameter name of the request, whatever keys the request carries.   *)
(***************************************************************************)
RootUrl(path) == [kind |-> "root", path |-> path, page |-> 1]

\* query_url = f"{fhir_base_url}/{target_id}?{_params}", with
\* _params = params.replace("{path}", ",".join(chunk))
QueryUrl(target_id, params, chunk) ==
    [kind |-> "link", target |-> target_id, params |-> params, keys |-> chunk, page |-> 1]

\* A data set may also say what is served to the link query whose first
\* key is a given one (byFirstKey).
PagesFor(url) ==
    IF url.kind = "root" THEN server.root
    ELSE IF /\ "byFirstKey" \in DOMAIN server
            /\ url.keys # <<>>
            /\ url.keys[1] \in DOMAIN server.byFirstKey
    THEN server.byFirstKey[url.keys[1]]
    ELSE server.byType[url.target]

\* A data set may say of a query (the starting query, "root", or the link
\* queries of a target type) that its last page advertises its first page
\* as the next one (loops).
Loops(url) ==
    /\ "loops" \in DOMAIN server
    /\ (IF url.kind = "root" THEN "root" ELSE url.target) \in server.loops

\* The bundle a successful GET returns: its entries and its "next" link.
Response(url) ==
    LET pages == PagesFor(url) IN
    IF url.page > Len(pages)
    THEN [entry |-> <<>>, next |-> <<>>]
    ELSE [entry |-> pages[url.page],
          next  |-> IF url.page < Len(pages)
                    THEN <<[url EXCEPT !.page = @ + 1]>>
                    ELSE IF Loops(url)
                    THEN <<[url EXCEPT !.page = 1]>>
                    ELSE <<>>]

(***************************************************************************)
(* GraphDefinitionRunner.execute_query.  A call is the chain of its        *)
(* activations (one per page, innermost last); each activation has its own *)
(* `retry` and its own `resources`.                                        *)
(***************************************************************************)
\* History: attempts, requests (the URL of every GET made), sleeps, waited
\* (the time slept), gaveUp and log (the records the activation has handed
\* to the logging module).
NewFrame(url) ==
    [url |-> url, retry |-> 0, resources |-> <<>>,
     attempts |-> 0, requests |-> <<>>, sleeps |-> 0, waited |-> 0, gaveUp |-> FALSE,
     log |-> <<>>]

\* if self.debug: logging.info(f"Querying: {query_url}"), before the GET of
\* every attempt.  History: attempt is the number of the attempt.
QueryingLog(f) ==
    IF debug
    THEN <<[level |-> "INFO", event |-> "Querying", attempt |-> f.attempts + 1]>>
    ELSE <<>>

\* Variant: the warning is logged when the attempt that timed out was the
\* last one the loop allows.
TimeoutLog_LastAttempt(f, kind) ==
    IF f.retry = max_retry - 1
    THEN <<[level |-> "WARNING", event |-> kind, attempt |-> f.attempts + 1]>>
    ELSE <<>>

\* if retry == max_retry: logging.warning(f"ReadTimeout: ... Retry: {retry}"),
\* in the handler of the timeout, before the sleep and before retry += 1.
TimeoutLog(f, kind) ==
    IF f.retry = max_retry
    THEN <<[level |-> "WARNING", event |-> kind, attempt |-> f.attempts + 1]>>
    ELSE <<>>

\* Mutant: a retry asks for the page after the one that timed out.
AttemptUrl_NextPage(f) == [f.url EXCEPT !.page = @ + f.retry]

\* response = await client.get(query_url, timeout=300): every attempt of an
\* activation asks for its query_url.
AttemptUrl(f) == f.url

\* Mutant: the activation of the next page goes on with the retry count of
\* the activation that awaits it.
NextFrame_SharedBudget(f, url) == [NewFrame(url) EXCEPT !.retry = f.retry]

\* await self.execute_query(next_link[0]["url"]): the activation of the next
\* page starts with retry = 0 (line 236), whatever the activation f that
\* awaits it has used.
NextFrame(f, url) == NewFrame(url)

NewCall(url, qid) ==
    [qid |-> qid, frames |-> <<NewFrame(url)>>, st |-> "ready",
     result |-> <<>>, raised |-> ""]

\* for entry in query_result.get("entry", []): self.add(...); resources.append(...)
\* The loop stops at the first add() that raises.  (The range lo..hi of the
\* entries is folded by halves; the order of the adds is that of the loop.)
\* Mutant: the entry is returned but not inserted.
AddEntry_NotStored(acc, entry) ==
    [rows |-> acc.rows, adds_counters |-> acc.adds_counters, raised |-> "",
     resources |-> Append(acc.resources, entry)]

AddEntry(acc, entry) ==
    LET r == add([rows |-> acc.rows, adds_counters |-> acc.adds_counters], entry) IN
    [rows |-> r.rows, adds_counters |-> r.adds_counters, raised |-> r.raised,
     resources |-> IF r.raised = "" THEN Append(acc.resources, entry) ELSE acc.resources]

RECURSIVE AddRange(_, _, _, _)
AddRange(acc, entries, lo, hi) ==
    IF lo > hi \/ acc.raised # "" THEN acc
    ELSE IF lo = hi THEN AddEntry(acc, entries[lo])
    ELSE LET mid == (lo + hi) \div 2
             left == AddRange(acc, entries, lo, mid)
         IN AddRange(left, entries, mid + 1, hi)

AddEntries(db, entries, got) ==
    AddRange([rows |-> db.rows, adds_counters |-> db.adds_counters, raised |-> "",
              resources |-> got], entries, 1, Len(entries))

\* Mutant: what the innermost activation returned is what the query returns.
Unwind_InnermostOnly(frames, last) ==
    frames[Len(frames)].resources \o last

\* What the outermost activation returns once the innermost one returned
\* `last`: every activation appends the entries of the one below it.
Unwind(frames, last) ==
    Flatten([i \in 1..Len(frames) |-> frames[i].resources]) \o last

\* Mutant: one attempt too many.
RetryAgain_OneMore(retry) == retry <= max_retry

\* while retry < max_retry
RetryAgain(retry) == retry < max_retry

\* Mutant: the "next" link is not followed.
FollowNext_Never(response) == FALSE

\* Mutant: a maximum page count, past which the query fails.
TooDeep_PageLimit(frames, next) == Len(frames) >= 3

\* await self.execute_query(next_link[0]["url"]) nests one activation per
\* page; the interpreter's recursion limit is the only limit there is, and
\* the activation that would exceed it raises RecursionError.
TooDeep(frames, next) == Len(frames) >= MaxDepth

\* if next_link: follow it
FollowNext(response) == response.next # <<>>

Awaiting == pc \in {"root_await", "gather_batch", "gather_final"}

\* History: the status of a dispatched query (the starting query, qid 0, is
\* not one of them).
SetStatus(qs, call, status) ==
    IF call.qid = 0 THEN qs ELSE [qs EXCEPT ![call.qid].status = status]

SetDone(qs, call, result, gaveUp) ==
    IF call.qid = 0 THEN qs
    ELSE [qs EXCEPT ![call.qid].status = "done",
                    ![call.qid].result = result,
                    ![call.qid].gaveUp = gaveUp]

Top(call) == call.frames[Len(call.frames)]
SetTop(call, frame) == [call.frames EXCEPT ![Len(call.frames)] = frame]

\* client.get answered 2xx: lines 245-256.
QueryOk(k) ==
    /\ Awaiting
    /\ k \in 1..Len(tasks)
    /\ tasks[k].st = "ready"
    /\ LET call == tasks[k]
           f == Top(call)
           response == Response(AttemptUrl(f))
           a == AddEntries([rows |-> rows, adds_counters |-> adds_counters],
                           response.entry, <<>>)
           f2 == [f EXCEPT !.attempts = @ + 1, !.requests = Append(@, AttemptUrl(f)),
                           !.resources = a.resources,
                           !.log = @ \o QueryingLog(f)]
       IN /\ rows' = a.rows
          /\ adds_counters' = a.adds_counters
          /\ IF a.raised # ""
             THEN /\ tasks' = [tasks EXCEPT ![k] =
                        [call EXCEPT !.frames = SetTop(call, f2), !.st = "raised",
                                     !.raised = a.raised]]
                  /\ queries' = SetStatus(queries, call, "raised")
             ELSE IF FollowNext(response) /\ TooDeep(call.frames, response.next[1])
             THEN /\ tasks' = [tasks EXCEPT ![k] =
                        [call EXCEPT !.frames = SetTop(call, f2), !.st = "raised",
                                     !.raised = "RecursionError"]]
                  /\ queries' = SetStatus(queries, call, "raised")
             ELSE IF FollowNext(response)
             THEN /\ tasks' = [tasks EXCEPT ![k] =
                        [call EXCEPT !.frames = Append(SetTop(call, f2),
                                                       NextFrame(f2, response.next[1]))]]
                  /\ queries' = queries
             ELSE /\ tasks' = [tasks EXCEPT ![k] =
                        [call EXCEPT !.frames = SetTop(call, f2), !.st = "done",
                                     !.result = Unwind(SetTop(call, f2), <<>>)]]
                  /\ queries' = SetDone(queries, call, Unwind(SetTop(call, f2), <<>>), FALSE)
    /\ UNCHANGED <<logVars, inputVars, netVars, pc, error, visited, stack, extractions>>

\* client.get raised httpx.ReadTimeout or httpx.ConnectTimeout: the handler
\* starts asyncio.sleep(5).
QueryTimeout(k) ==
    /\ Awaiting
    /\ k \in 1..Len(tasks)
    /\ tasks[k].st = "ready"
    /\ timeoutsLeft > 0
    /\ \E kind \in {"ReadTimeout", "ConnectTimeout"} :
         LET call == tasks[k]
             f == Top(call)
         IN tasks' = [tasks EXCEPT ![k] =
                [call EXCEPT !.frames = SetTop(call,
                                 [f EXCEPT !.attempts = @ + 1,
                                           !.requests = Append(@, AttemptUrl(f)),
                                           !.log = @ \o QueryingLog(f)
                                                     \o TimeoutLog(f, kind)]),
                             !.st = "sleeping"]]
    /\ timeoutsLeft' = timeoutsLeft - 1
    /\ UNCHANGED <<storeVars, logVars, inputVars, fatalsLeft, pc, error, visited, stack,
                   histVars>>

\* Mutant: a query that gives up takes back the Visit Records of the source
\* resources whose join key it carried.
SleepDone_Forgets(k) ==
    /\ Awaiting
    /\ k \in 1..Len(tasks)
    /\ tasks[k].st = "sleeping"
    /\ LET call == tasks[k]
           f == Top(call)
           f2 == [f EXCEPT !.retry = @ + 1, !.sleeps = @ + 1,
                           !.waited = @ + sleep_seconds]
       IN IF RetryAgain(f2.retry)
          THEN /\ tasks' = [tasks EXCEPT ![k] =
                     [call EXCEPT !.frames = SetTop(call, f2), !.st = "ready"]]
               /\ queries' = queries
               /\ visited' = visited
          ELSE LET f3 == [f2 EXCEPT !.gaveUp = TRUE, !.resources = <<>>] IN
               /\ tasks' = [tasks EXCEPT ![k] =
                     [call EXCEPT !.frames = SetTop(call, f3), !.st = "done",
                                  !.result = Unwind(SetTop(call, f3), <<>>)]]
               /\ queries' = SetDone(queries, call, Unwind(SetTop(call, f3), <<>>), TRUE)
               /\ visited' =
                     IF f.url.kind = "root" THEN visited
                     ELSE visited \ {<<key[1], key[2], f.url.target>> :
                                        key \in Range(f.url.keys)}
    /\ UNCHANGED <<storeVars, logVars, inputVars, netVars, pc, error, stack,
                   extractions>>

\* The sleep is over: retry += 1, and the loop either tries again or ends
\* and the activation returns [].
SleepDone(k) ==
    /\ Awaiting
    /\ k \in 1..Len(tasks)
    /\ tasks[k].st = "sleeping"
    /\ LET call == tasks[k]
           f == Top(call)
           f2 == [f EXCEPT !.retry = @ + 1, !.sleeps = @ + 1,
                           !.waited = @ + sleep_seconds]
       IN IF RetryAgain(f2.retry)
          THEN /\ tasks' = [tasks EXCEPT ![k] =
                     [call EXCEPT !.frames = SetTop(call, f2), !.st = "ready"]]
               /\ queries' = queries
          ELSE LET f3 == [f2 EXCEPT !.gaveUp = TRUE, !.resources = <<>>] IN
               /\ tasks' = [tasks EXCEPT ![k] =
                     [call EXCEPT !.frames = SetTop(call, f3), !.st = "done",
                                  !.result = Unwind(SetTop(call, f3), <<>>)]]
               /\ queries' = SetDone(queries, call, Unwind(SetTop(call, f3), <<>>), TRUE)
    /\ UNCHANGED <<storeVars, logVars, inputVars, netVars, pc, error, visited, stack,
                   extractions>>

\* client.get or raise_for_status raised anything else (server.failures: a
\* non-2xx status, a transport error that is no read or connect timeout): no
\* handler catches it, in this activation or in the ones above it.
QueryFail(k) ==
    /\ Awaiting
    /\ k \in 1..Len(tasks)
    /\ tasks[k].st = "ready"
    /\ fatalsLeft > 0
    /\ \E kind \in server.failures :
         LET call == tasks[k]
             f == Top(call)
         IN tasks' = [tasks EXCEPT ![k] =
                [call EXCEPT !.frames = SetTop(call,
                                 [f EXCEPT !.attempts = @ + 1,
                                           !.requests = Append(@, AttemptUrl(f)),
                                           !.log = @ \o QueryingLog(f)]),
                             !.st = "raised", !.raised = kind]]
    /\ queries' = SetStatus(queries, tasks[k], "raised")
    /\ fatalsLeft' = fatalsLeft - 1
    /\ UNCHANGED <<storeVars, logVars, inputVars, timeoutsLeft, pc, error, visited, stack,
                   extractions>>


(***************************************************************************)
(* GraphDefinitionRunner.process_links and run: the main coroutine.  An    *)
(* activation of process_links is a frame of `stack`; the tasks it created *)
(* run only while it is suspended in asyncio.gather.                       *)
(*                                                                         *)
(* A link is [sourceId, targetId, path, params]; path is the sequence of   *)
(* the keys of the dotted path (<<>> when the link has none), params the   *)
(* template ("" when the link has none).                                   *)
(***************************************************************************)
\* [link for link in graph_definition.get("link", []) if link.get("sourceId") == t],
\* as the positions of these links in the graph description.
RECURSIVE LinksFromAt(_, _, _)
LinksFromAt(g, t, i) ==
    IF i > Len(g) THEN <<>>
    ELSE IF g[i].sourceId = t THEN <<i>> \o LinksFromAt(g, t, i + 1)
    ELSE LinksFromAt(g, t, i + 1)

\* Mutant: every link of the graph description is selected.
LinksFrom_All(g, t) == [i \in 1..Len(g) |-> i]

LinksFrom(g, t) == LinksFromAt(g, t, 1)

\* parent = dotty({_["resourceType"]: _}); path in parent.  The keys
\* path[i..] are looked up in `document`, the object found under `parent`.
RECURSIVE PathInAt(_, _, _, _)
PathInAt(document, parent, path, i) ==
    /\ path[i] \in DOMAIN document
    /\ \/ i = Len(path)
       \/ /\ IsObject(parent, path[i])
          /\ PathInAt(document[path[i]], path[i], path, i + 1)

PathIn(path, resource) ==
    /\ Len(path) >= 2
    /\ path[1] = resource.resourceType
    /\ PathInAt(resource, "", path, 2)

\* parent[path]
RECURSIVE ValueAt(_, _, _)
ValueAt(document, path, i) ==
    IF i = Len(path) THEN document[path[i]] ELSE ValueAt(document[path[i]], path, i + 1)

\* Mutant: the value of a path ending in ".id" gets no type in front of it.
JoinKey_Unqualified(path, source_id, resource) ==
    IF path[Len(path)] = "id"
    THEN <<NoValue, ValueAt(resource, path, 2)>>
    ELSE ValueAt(resource, path, 2)

\* _path = parent[path]; if path.endswith(".id"): _path = source_id + "/" + _path
JoinKey(path, source_id, resource) ==
    IF path[Len(path)] = "id"
    THEN <<source_id, ValueAt(resource, path, 2)>>
    ELSE ValueAt(resource, path, 2)

\* Mutant: the Visit Records are not consulted.
NotVisited_Always(key, seen) == TRUE

\* if key not in visited
NotVisited(key, seen) == key \notin seen

\* current_path.add(_path), current_path being a set; the sequence keeps the
\* order of first insertion, which is the order list(current_path) is
\* taken to have.
SetAdd(list, value) == IF value \in Range(list) THEN list ELSE Append(list, value)

\* Lines 303-320: the loop over parent_resources for one link.  (The range
\* lo..hi of the frontier is folded by halves; the order is that of the loop.)
CollectOne(link, r, acc) ==
    LET key == <<r.resourceType, r.id, link.targetId>> IN
    IF r.resourceType # link.sourceId \/ ~NotVisited(key, acc.visited)
    THEN acc
    ELSE LET seen == [acc EXCEPT !.visited = @ \cup {key},
                                 !.extracted = Append(@, key)]
         IN IF link.path = <<>>
            THEN [seen EXCEPT !.raised = "AssertionError"]
            ELSE IF ~PathIn(link.path, r)
            THEN seen
            ELSE [seen EXCEPT !.current_path =
                     SetAdd(@, JoinKey(link.path, link.sourceId, r))]

RECURSIVE CollectRange(_, _, _, _, _)
CollectRange(link, resources, lo, hi, acc) ==
    IF lo > hi \/ acc.raised # "" THEN acc
    ELSE IF lo = hi THEN CollectOne(link, resources[lo], acc)
    ELSE LET mid == (lo + hi) \div 2
             left == CollectRange(link, resources, lo, mid, acc)
         IN CollectRange(link, resources, mid + 1, hi, left)

CollectFrom(link, resources, seen) ==
    CollectRange(link, resources, 1, Len(resources),
                 [visited |-> seen, current_path |-> <<>>, raised |-> "", extracted |-> <<>>])

\* Lines 327-331: if spinner: spinner.succeed(); spinner.start(text=...).
\* The text names the link and the number of join keys found.
Report(reporter, texts, link, current_path) ==
    IF reporter
    THEN Append(texts, [targetId |-> link.targetId, params |-> link.params,
                        found |-> Len(current_path), sourceId |-> link.sourceId])
    ELSE texts

\* Mutant: the text names the first join key found.
ReportRaises_FirstKey(reporter, link, current_path) ==
    reporter /\ current_path = <<>>

\* What building the text can raise: it reads link['targetId'],
\* link['params'], link['sourceId'] and len(current_path).
ReportRaises(reporter, link, current_path) ==
    reporter /\ ~({"targetId", "params", "sourceId"} \subseteq DOMAIN link)

\* Mutant: the last, shorter slice is lost.
Chunks_DropTail(list) ==
    IF Len(list) > chunk_size
    THEN [k \in 1..(Len(list) \div chunk_size) |->
            SubSeq(list, (k - 1) * chunk_size + 1, k * chunk_size)]
    ELSE <<list>>

\* Lines 334-339: chunks = [_current_path], or its slices of chunk_size
\* when it is longer than chunk_size.
Min(a, b) == IF a < b THEN a ELSE b

Chunks(list) ==
    IF Len(list) > chunk_size
    THEN [k \in 1..((Len(list) + chunk_size - 1) \div chunk_size) |->
            SubSeq(list, (k - 1) * chunk_size + 1, Min(k * chunk_size, Len(list)))]
    ELSE <<list>>

\* Mutant: the batch is awaited one task late.
BatchFull_OneLate(ts) == Len(ts) > max_requests

\* if len(tasks) >= self.max_requests
BatchFull(ts) == Len(ts) >= max_requests

\* Mutant: gather with return_exceptions=True, a raised task counts as over.
GatherReady_SwallowRaised(ts) == \A k \in 1..Len(ts) : ts[k].st \in {"done", "raised"}

\* Mutant: the wait ends with the first task that returns.
GatherReady_FirstCompleted(ts) == ts = <<>> \/ \E k \in 1..Len(ts) : ts[k].st = "done"

\* await asyncio.gather(*tasks) returns once every task has returned.
GatherReady(ts) == \A k \in 1..Len(ts) : ts[k].st = "done"

\* asyncio.gather(*tasks) raises as soon as one task has raised.
GatherRaises(ts) == \E k \in 1..Len(ts) : ts[k].st = "raised"

\* A new activation, entered with the Visit Records `seen`.  History:
\* entryVisited and entryRows are the Visit Records and the size of the
\* store when it was entered, firstQuery the position in `queries` of the
\* first query of its current link.
Frame(t, resources, seen) ==
    [parent_target_id |-> t, parent_resources |-> resources,
     links |-> LinksFrom(graph, t), i |-> 1,
     current_path |-> <<>>, chunks |-> <<>>, c |-> 1,
     entryVisited |-> seen, entryRows |-> Len(rows), firstQuery |-> Len(queries) + 1]

TopFrame == stack[Len(stack)]
CurrentLink == graph[TopFrame.links[TopFrame.i]]
SetTopFrame(f) == [stack EXCEPT ![Len(stack)] = f]

\* Mutant: with no link there is nothing to do and run returns.
EnterGraph_Silent(parent_resources, seen) ==
    IF graph = <<>>
    THEN /\ pc' = "returned"
         /\ error' = error
         /\ stack' = stack
    ELSE /\ pc' = "link"
         /\ error' = error
         /\ stack' = <<Frame(graph[1].sourceId, parent_resources, seen)>>

\* Lines 400-408: start_resource_type = graph_definition["link"][0]["sourceId"],
\* then process_links.
EnterGraph(parent_resources, seen) ==
    IF graph = <<>>
    THEN /\ pc' = "raised"
         /\ error' = "IndexError"
         /\ stack' = stack
    ELSE /\ pc' = "link"
         /\ error' = error
         /\ stack' = <<Frame(graph[1].sourceId, parent_resources, seen)>>

\* Mutant: the Visit Records of the call before are kept.
NewVisited_Kept(old) == old

\* visited: set[tuple[Any, Any, Any]] = set()
NewVisited(old) == {}

\* Lines 392-398.
RunStart ==
    /\ pc = "start"
    /\ visited' = NewVisited(visited)
    /\ IF startPath # ""
       THEN /\ tasks' = <<NewCall(RootUrl(startPath), 0)>>
            /\ pc' = "root_await"
            /\ UNCHANGED <<error, stack>>
       ELSE /\ tasks' = tasks
            /\ EnterGraph(<<>>, NewVisited(visited))
    /\ UNCHANGED <<storeVars, logVars, inputVars, netVars, histVars>>

\* parent_resources = await self.execute_query(url) returned.
RootReturn ==
    /\ pc = "root_await"
    /\ tasks[1].st = "done"
    /\ EnterGraph(tasks[1].result, visited)
    /\ UNCHANGED <<storeVars, logVars, inputVars, netVars, visited, tasks, histVars>>

\* It raised: run has no handler.
RootRaise ==
    /\ pc = "root_await"
    /\ tasks[1].st = "raised"
    /\ pc' = "raised"
    /\ error' = tasks[1].raised
    /\ UNCHANGED <<storeVars, logVars, inputVars, netVars, visited, stack, tasks, histVars>>

\* Mutant: every link is taken to have params.
HasParams_Always(link) == TRUE

\* if params
HasParams(link) == link.params # ""

\* Lines 295-339 for the next link of the innermost activation: the join
\* keys are collected and chunked; nothing here suspends.
\* LinkStep(reporter) is the step with `reporter` for the spinner argument,
\* apart from what the reporter is told.
LinkStep(reporter) ==
    /\ pc = "link"
    /\ TopFrame.i <= Len(TopFrame.links)
    /\ LET link == CurrentLink IN
       IF HasParams(link)
       THEN LET acc == CollectFrom(link, TopFrame.parent_resources, visited)
            IN /\ visited' = acc.visited
               /\ extractions' = extractions \o
                     [n \in 1..Len(acc.extracted) |->
                        [key |-> acc.extracted[n], link |-> TopFrame.links[TopFrame.i]]]
               /\ IF acc.raised # ""
                  THEN /\ pc' = "raised"
                       /\ error' = acc.raised
                       /\ UNCHANGED <<stack, tasks>>
                  ELSE IF ReportRaises(reporter, link, acc.current_path)
                  THEN /\ pc' = "raised"
                       /\ error' = "ReporterError"
                       /\ UNCHANGED <<stack, tasks>>
                  ELSE /\ pc' = "dispatch"
                       /\ error' = error
                       /\ tasks' = <<>>
                       /\ stack' = SetTopFrame([TopFrame EXCEPT
                                       !.current_path = acc.current_path,
                                       !.chunks = Chunks(acc.current_path),
                                       !.c = 1,
                                       !.firstQuery = Len(queries) + 1])
       ELSE /\ pc' = "readback"
            /\ UNCHANGED <<error, visited, stack, tasks, extractions>>
    /\ UNCHANGED <<storeVars, addLog, reads, previous, inputVars, netVars, queries>>

ProcessLink ==
    /\ LinkStep(spinner)
    /\ reported' =
          IF HasParams(CurrentLink)
          THEN LET acc == CollectFrom(CurrentLink, TopFrame.parent_resources, visited) IN
               IF acc.raised = "" /\ ~ReportRaises(spinner, CurrentLink, acc.current_path)
               THEN Report(spinner, reported, CurrentLink, acc.current_path)
               ELSE reported
          ELSE reported

\* Lines 340-346, one turn of the loop over chunks: a task is created for
\* the chunk; a full batch is awaited before the next chunk.
Dispatch ==
    /\ pc = "dispatch"
    /\ LET f == TopFrame
           link == CurrentLink
           url == QueryUrl(link.targetId, link.params, f.chunks[f.c])
           created == Append(tasks, NewCall(url, Len(queries) + 1))
       IN /\ tasks' = created
          /\ queries' = Append(queries,
                [link |-> f.links[f.i], depth |-> Len(stack), url |-> url,
                 status |-> "running", result |-> <<>>, gaveUp |-> FALSE])
          /\ stack' = SetTopFrame([f EXCEPT !.c = @ + 1])
          /\ pc' = IF BatchFull(created) THEN "gather_batch"
                   ELSE IF f.c + 1 > Len(f.chunks) THEN "gather_final"
                   ELSE "dispatch"
    /\ UNCHANGED <<storeVars, logVars, inputVars, netVars, error, visited, extractions>>

\* Lines 345-347: an awaited asyncio.gather returns.  Inside the loop
\* (a full batch) tasks = [] follows and the loop goes on; after the loop
\* the link's queries are over.
Gather ==
    /\ pc \in {"gather_batch", "gather_final"}
    /\ GatherReady(tasks)
    /\ IF pc = "gather_batch"
       THEN /\ tasks' = <<>>
            /\ pc' = IF TopFrame.c > Len(TopFrame.chunks) THEN "gather_final" ELSE "dispatch"
       ELSE /\ tasks' = tasks
            /\ pc' = "readback"
    /\ UNCHANGED <<storeVars, logVars, inputVars, netVars, error, visited, stack, histVars>>

\* A task raised: gather re-raises it, no activation of process_links and
\* not run handles it, and asyncio.run (cli.main) cancels the tasks that
\* still run.
Cancelled(ts) ==
    [k \in 1..Len(ts) |->
        IF ts[k].st \in {"done", "raised"} THEN ts[k] ELSE [ts[k] EXCEPT !.st = "cancelled"]]

CancelledQueries(qs, ts) ==
    [q \in 1..Len(qs) |->
        IF \E k \in 1..Len(ts) : ts[k].qid = q /\ ts[k].st \notin {"done", "raised"}
        THEN [qs[q] EXCEPT !.status = "cancelled"]
        ELSE qs[q]]

\* Mutant: the abort rolls back what the activation has inserted.
GatherRaise_RollsBack ==
    /\ pc \in {"gather_batch", "gather_final"}
    /\ GatherRaises(tasks)
    /\ \E k \in 1..Len(tasks) :
         /\ tasks[k].st = "raised"
         /\ error' = tasks[k].raised
    /\ pc' = "raised"
    /\ tasks' = Cancelled(tasks)
    /\ queries' = CancelledQueries(queries, tasks)
    /\ rows' = SubSeq(rows, 1, TopFrame.entryRows)
    /\ UNCHANGED <<adds_counters, logVars, inputVars, netVars, visited, stack, extractions>>

GatherRaise ==
    /\ pc \in {"gather_batch", "gather_final"}
    /\ GatherRaises(tasks)
    /\ \E k \in 1..Len(tasks) :
         /\ tasks[k].st = "raised"
         /\ error' = tasks[k].raised
    /\ pc' = "raised"
    /\ tasks' = Cancelled(tasks)
    /\ queries' = CancelledQueries(queries, tasks)
    /\ UNCHANGED <<storeVars, logVars, inputVars, netVars, visited, stack, extractions>>

\* Mutant: the next frontier is what the queries of the link returned.
ReadBack_OwnResults ==
    /\ pc = "readback"
    /\ LET target_id == CurrentLink.targetId
           query_results ==
              Flatten([q \in 1..(Len(queries) + 1 - TopFrame.firstQuery) |->
                          queries[TopFrame.firstQuery + q - 1].result])
           edges == LinksFrom(graph, target_id)
       IN IF edges # <<>>
          THEN IF Len(stack) >= MaxDepth
               THEN /\ pc' = "raised"
                    /\ error' = "RecursionError"
                    /\ stack' = stack
               ELSE /\ pc' = "link"
                    /\ error' = error
                    /\ stack' = Append(stack, Frame(target_id, query_results, visited))
          ELSE /\ pc' = "link"
               /\ error' = error
               /\ stack' = SetTopFrame([TopFrame EXCEPT !.i = @ + 1])
    /\ UNCHANGED <<storeVars, logVars, inputVars, netVars, visited, tasks, histVars>>

\* Mutant: the links looked for are those of the link's source type, and
\* process_links recurses for that type.
ReadBack_RecursesOnSource ==
    /\ pc = "readback"
    /\ LET target_id == CurrentLink.targetId
           query_results == all_resources(rows, target_id)
           edges == LinksFrom(graph, CurrentLink.sourceId)
       IN IF edges # <<>>
          THEN IF Len(stack) >= MaxDepth
               THEN /\ pc' = "raised"
                    /\ error' = "RecursionError"
                    /\ stack' = stack
               ELSE /\ pc' = "link"
                    /\ error' = error
                    /\ stack' = Append(stack,
                                       Frame(CurrentLink.sourceId, query_results, visited))
          ELSE /\ pc' = "link"
               /\ error' = error
               /\ stack' = SetTopFrame([TopFrame EXCEPT !.i = @ + 1])
    /\ UNCHANGED <<storeVars, logVars, inputVars, netVars, visited, tasks, histVars>>

\* Lines 351-369: the stored resources of the target type are read back
\* and, when the target type has links of its own, process_links recurses.
ReadBack ==
    /\ pc = "readback"
    /\ LET target_id == CurrentLink.targetId
           query_results == all_resources(rows, target_id)
           edges == LinksFrom(graph, target_id)
       IN IF edges # <<>>
          THEN IF Len(stack) >= MaxDepth
               THEN /\ pc' = "raised"
                    /\ error' = "RecursionError"
                    /\ stack' = stack
               ELSE /\ pc' = "link"
                    /\ error' = error
                    /\ stack' = Append(stack, Frame(target_id, query_results, visited))
          ELSE /\ pc' = "link"
               /\ error' = error
               /\ stack' = SetTopFrame([TopFrame EXCEPT !.i = @ + 1])
    /\ UNCHANGED <<storeVars, logVars, inputVars, netVars, visited, tasks, histVars>>

\* Mutant: the activation that is returned to goes on with the frontier of
\* the one that returned.
Return_TakesFrontier ==
    /\ pc = "link"
    /\ TopFrame.i > Len(TopFrame.links)
    /\ LET rest == SubSeq(stack, 1, Len(stack) - 1) IN
       IF rest = <<>>
       THEN /\ stack' = rest
            /\ pc' = "returned"
       ELSE /\ stack' = [rest EXCEPT ![Len(rest)].i = @ + 1,
                                     ![Len(rest)].parent_resources =
                                         TopFrame.parent_resources]
            /\ pc' = "link"
    /\ UNCHANGED <<storeVars, logVars, inputVars, netVars, error, visited, tasks, histVars>>

\* The loop over links is over: the activation returns, to the activation
\* that awaits it (which goes on with its next link) or to run.
Return ==
    /\ pc = "link"
    /\ TopFrame.i > Len(TopFrame.links)
    /\ LET rest == SubSeq(stack, 1, Len(stack) - 1) IN
       IF rest = <<>>
       THEN /\ stack' = rest
            /\ pc' = "returned"
       ELSE /\ stack' = [rest EXCEPT ![Len(rest)].i = @ + 1]
            /\ pc' = "link"
    /\ UNCHANGED <<storeVars, logVars, inputVars, netVars, error, visited, tasks, histVars>>

\* The run is over and run is called again, on the same runner (the same
\* store) with the same graph_definition, path and spinner.  History: what
\* the run that is over dispatched, extracted and left in the store.
RunAgain ==
    /\ pc \in {"returned", "raised"}
    /\ Len(previous) + 1 < MaxRuns
    /\ previous' = Append(previous,
          [outcome |-> pc, error |-> error, queries |-> queries,
           extractions |-> extractions, rows |-> rows])
    /\ pc' = "start"
    /\ error' = ""
    /\ stack' = <<>>
    /\ tasks' = <<>>
    /\ queries' = <<>>
    /\ extractions' = <<>>
    /\ reported' = <<>>
    /\ reads' = NoReads
    /\ UNCHANGED <<storeVars, addLog, inputVars, netVars, visited>>

(***************************************************************************)
(* The runs that are checked: a graph description, a starting query and a  *)
(* server data set.                                                        *)
(***************************************************************************)
Pat(i) == [resourceType |-> "Patient", id |-> i]
Spe(i, p) ==
    [resourceType |-> "Specimen", id |-> i, subject |-> [reference |-> <<"Patient", p>>]]

PatientToSpecimen ==
    [sourceId |-> "Patient", targetId |-> "Specimen",
     path |-> <<"Patient", "id">>, params |-> "subject={path}"]
\* The path is absent on every Specimen of the data sets.
SpecimenToObservation ==
    [sourceId |-> "Specimen", targetId |-> "Observation",
     path |-> <<"Specimen", "parent">>, params |-> "focus={path}"]
SpecimenToPatient ==
    [sourceId |-> "Specimen", targetId |-> "Patient",
     path |-> <<"Specimen", "subject", "reference">>, params |-> "_id={path}"]

\* A second link from Patient to Specimen, by another search parameter.
PatientToSpecimenByPatient ==
    [sourceId |-> "Patient", targetId |-> "Specimen",
     path |-> <<"Patient", "id">>, params |-> "patient={path}"]

PatientToObservation ==
    [sourceId |-> "Patient", targetId |-> "Observation",
     path |-> <<"Patient", "id">>, params |-> "subject={path}"]
\* No resource of its source type is ever fetched, by the starting query or
\* by a link.
EncounterToObservation ==
    [sourceId |-> "Encounter", targetId |-> "Observation",
     path |-> <<"Encounter", "id">>, params |-> "encounter={path}"]

\* A link with params and without path.
PatientToSpecimenNoPath ==
    [sourceId |-> "Patient", targetId |-> "Specimen",
     path |-> <<>>, params |-> "subject={path}"]

\* A link without params (and without path).
StudyToPatient ==
    [sourceId |-> "ResearchStudy", targetId |-> "Patient", path |-> <<>>, params |-> ""]

NoPages == [t \in ResourceTypes |-> <<>>]

\* A starting query of three pages, then two links; the second finds no
\* join key.
Acyclic ==
    [graph |-> <<PatientToSpecimen, SpecimenToObservation>>,
     startPath |-> "/Patient?_count=1",
     server |-> [root |-> << <<Pat("1")>>, <<Pat("2")>>, <<Pat("3")>> >>,
                 byType |-> [NoPages EXCEPT
                     !["Specimen"] = << <<Spe("1", "1"), Spe("2", "2")>>, <<Spe("3", "3")>> >>],
     failures |-> {"ConnectError"}],
     timeouts |-> MaxTimeouts, fatals |-> MaxFatal, spinners |-> {TRUE, FALSE}]

\* Patient -> Specimen -> Patient: the links form a cycle.
Cyclic ==
    [graph |-> <<PatientToSpecimen, SpecimenToPatient>>,
     startPath |-> "/Patient",
     server |-> [root |-> << <<Pat("1"), Pat("2")>> >>,
                 byType |-> [NoPages EXCEPT
                     !["Specimen"] = << <<Spe("1", "1"), Spe("2", "3")>> >>,
                     !["Patient"] = << <<Pat("1"), Pat("3")>> >>],
                 failures |-> {"HTTPStatusError"}],
     timeouts |-> MaxTimeouts, fatals |-> MaxFatal, spinners |-> {TRUE}]

\* Among the Specimens the server serves a second payload under a key it
\* has already served and a document without 'id'.
Malformed ==
    [graph |-> <<PatientToSpecimen, SpecimenToObservation>>,
     startPath |-> "/Patient",
     server |-> [root |-> << <<Pat("1"), Pat("2")>> >>,
                 byType |-> [NoPages EXCEPT
                     !["Specimen"] = << <<Spe("1", "1")>>,
                                        <<Spe("1", "2"), [resourceType |-> "Specimen"],
                                          Spe("2", "2")>>,
                                        <<Spe("3", "2")>> >>],
                 failures |-> {"ConnectError"}],
     timeouts |-> 0, fatals |-> 0, spinners |-> {TRUE}]

\* The graph starts with a link without params: the starting query fetches
\* the Patients of a ResearchStudy, and the link leads on to them.
PassThrough ==
    [graph |-> <<StudyToPatient, PatientToSpecimen, SpecimenToObservation>>,
     startPath |-> "/Patient?_has:ResearchSubject:subject:study=ResearchStudy/123",
     server |-> [root |-> << <<Pat("1"), Pat("2")>> >>,
                 byType |-> [NoPages EXCEPT
                     !["Specimen"] = << <<Spe("1", "1"), Spe("2", "2")>> >>],
                 failures |-> {"ConnectError"}],
     timeouts |-> 0, fatals |-> 0, spinners |-> {TRUE}]

\* Two links share their source and their target type and differ in params.
Siblings ==
    [graph |-> <<PatientToSpecimen, PatientToSpecimenByPatient>>,
     startPath |-> "/Patient",
     server |-> [root |-> << <<Pat("1"), Pat("2")>> >>,
                 byType |-> [NoPages EXCEPT
                     !["Specimen"] = << <<Spe("1", "1"), Spe("2", "2")>> >>],
                 failures |-> {"ConnectError"}],
     timeouts |-> 0, fatals |-> 0, spinners |-> {TRUE}]

\* The starting query returns Specimens, two of one Patient and one without
\* a subject, and with them a resource of another type; the link from
\* Specimen leads to Patients, which have a link of their own.
Converge ==
    [graph |-> <<SpecimenToPatient, PatientToObservation, EncounterToObservation>>,
     startPath |-> "/Specimen?_include=Specimen:collector",
     server |-> [root |-> << <<Spe("1", "1"), Pat("9"), Spe("2", "1"),
                              [resourceType |-> "Specimen", id |-> "4"], Spe("3", "2")>> >>,
                 byType |-> [NoPages EXCEPT
                     !["Patient"] = << <<Pat("1"), Pat("2")>> >>],
                 failures |-> {"ConnectError"}],
     timeouts |-> 0, fatals |-> 0, spinners |-> {TRUE}]

\* run is called without a starting query.
NoStart ==
    [graph |-> <<PatientToSpecimen, SpecimenToObservation>>,
     startPath |-> "",
     server |-> [root |-> <<>>,
                 byType |-> [NoPages EXCEPT
                     !["Specimen"] = << <<Spe("1", "1"), Spe("2", "2")>> >>],
                 failures |-> {"ConnectError"}],
     timeouts |-> 0, fatals |-> 0, spinners |-> {TRUE}]

\* The first link has params and no path.
NoPath ==
    [graph |-> <<PatientToSpecimenNoPath, SpecimenToObservation>>,
     startPath |-> "/Patient",
     server |-> [root |-> << <<Pat("1"), Pat("2")>> >>,
                 byType |-> [NoPages EXCEPT
                     !["Specimen"] = << <<Spe("1", "1"), Spe("2", "2")>> >>],
                 failures |-> {"ConnectError"}],
     timeouts |-> 0, fatals |-> 0, spinners |-> {TRUE}]

\* The graph description has no link.
NoLinks ==
    [graph |-> <<>>,
     startPath |-> "/Patient",
     server |-> [root |-> << <<Pat("1"), Pat("2")>> >>,
                 byType |-> NoPages,
                 failures |-> {"ConnectError"}],
     timeouts |-> 0, fatals |-> 0, spinners |-> {TRUE}]

\* A frontier of n Patients: 1, chunk_size, chunk_size + 1, 120 and enough
\* for more than max_requests chunks.  The network does not time out here.
ManyPatients(n) == [i \in 1..n |-> Pat(ToString(i))]

Sizes == {1, chunk_size, chunk_size + 1, 120, chunk_size * max_requests + 1}

Wide(n) ==
    [graph |-> <<PatientToSpecimen, SpecimenToObservation>>,
     startPath |-> "/Patient?_count=1000",
     server |-> [root |-> << ManyPatients(n) >>,
                 byType |-> [NoPages EXCEPT !["Specimen"] = << <<Spe("1", "1")>> >>],
                 failures |-> {"HTTPStatusError"}],
     timeouts |-> 0, fatals |-> 1, spinners |-> {TRUE}]

\* 51 Patients, hence two chunk queries in flight at once.  Specimen/1 is
\* served to both, in two versions, to the first on its second page.
Versioned(resource, version) ==
    [k \in DOMAIN resource \cup {"versionId"} |->
        IF k = "versionId" THEN version ELSE resource[k]]

Overlap ==
    [graph |-> <<PatientToSpecimen, SpecimenToObservation>>,
     startPath |-> "/Patient?_count=1000",
     server |-> [root |-> << ManyPatients(chunk_size + 1) >>,
                 byType |-> NoPages,
                 byFirstKey |->
                    [key \in {<<"Patient", "1">>, <<"Patient", ToString(chunk_size + 1)>>} |->
                        IF key = <<"Patient", "1">>
                        THEN << <<Spe("2", "2")>>, <<Versioned(Spe("1", "1"), "a")>> >>
                        ELSE << <<Versioned(Spe("1", "1"), "b"), Spe("3", ToString(chunk_size + 1))>> >>],
                 failures |-> {"HTTPStatusError"}],
     timeouts |-> MaxTimeouts, fatals |-> MaxFatal, spinners |-> {TRUE}]

\* The next links of the Specimen query form a cycle: its second page
\* advertises its first.
Looping ==
    [graph |-> <<PatientToSpecimen, SpecimenToObservation>>,
     startPath |-> "/Patient",
     server |-> [root |-> << <<Pat("1")>> >>,
                 byType |-> [NoPages EXCEPT
                     !["Specimen"] = << <<Spe("1", "1")>>, <<Spe("2", "1")>> >>],
                 loops |-> {"Specimen"},
                 failures |-> {"ConnectError"}],
     timeouts |-> MaxTimeouts, fatals |-> MaxFatal, spinners |-> {TRUE}]

\* A starting query of two pages against a network that may time out twice
\* for every one of them; the runner is created with and without debug.
Flaky ==
    [graph |-> <<PatientToSpecimen, SpecimenToObservation>>,
     startPath |-> "/Patient?_count=1",
     server |-> [root |-> << <<Pat("1")>>, <<Pat("2")>> >>,
                 byType |-> [NoPages EXCEPT
                     !["Specimen"] = << <<Spe("1", "1"), Spe("2", "2")>> >>],
                 failures |-> {"ConnectError"}],
     timeouts |-> (max_retry - 1) * 2, fatals |-> MaxFatal, spinners |-> {TRUE},
     debugs |-> {TRUE, FALSE}]

PageScenarios == {Looping, Flaky}

\* Patient has two links, and the target of the first has a link of its
\* own; 51 Patients, hence two chunk queries in flight for either link.
Branching ==
    [graph |-> <<PatientToSpecimen, PatientToObservation, SpecimenToObservation>>,
     startPath |-> "/Patient?_count=1000",
     server |-> [root |-> << ManyPatients(chunk_size + 1) >>,
                 byType |-> [NoPages EXCEPT
                     !["Specimen"] = << <<Spe("1", "1"), Spe("2", "2")>> >>],
                 failures |-> {"HTTPStatusError"}],
     timeouts |-> MaxTimeouts, fatals |-> MaxFatal, spinners |-> {TRUE}]

Scenarios ==
    {Acyclic, Cyclic, Malformed, PassThrough, Siblings, Converge, NoStart, NoPath,
     NoLinks}

WideScenarios == {Wide(n) : n \in Sizes}

\* The state in which run is called on a fresh store.
InitRun(scenarios) ==
    /\ rows = <<>>
    /\ adds_counters = EmptyCounters
    /\ addLog = <<>>
    /\ \E sc \in scenarios :
         /\ graph = sc.graph
         /\ startPath = sc.startPath
         /\ server = sc.server
         /\ timeoutsLeft = sc.timeouts
         /\ fatalsLeft = sc.fatals
         /\ spinner \in sc.spinners
         /\ debug \in (IF "debugs" \in DOMAIN sc THEN sc.debugs ELSE {FALSE})
    /\ pc = "start"
    /\ error = ""
    /\ visited = {}
    /\ stack = <<>>
    /\ tasks = <<>>
    /\ queries = <<>>
    /\ extractions = <<>>
    /\ reported = <<>>
    /\ reads = NoReads
    /\ previous = <<>>

Init == InitRun(Scenarios)

InitWide == InitRun(WideScenarios)

Next ==
    \/ RunStart
    \/ RootReturn
    \/ RootRaise
    \/ ProcessLink
    \/ Dispatch
    \/ Gather
    \/ GatherRaise
    \/ ReadBack
    \/ Return
    \/ \E k \in 1..Len(tasks) : QueryOk(k)
    \/ \E k \in 1..Len(tasks) : QueryTimeout(k)
    \/ \E k \in 1..Len(tasks) : SleepDone(k)
    \/ \E k \in 1..Len(tasks) : QueryFail(k)
    \/ RunAgain
    \/ AggregateCall
    \/ CountCall
    \/ \E t \in ResourceTypes : AllResourcesCall(t)

Spec == Init /\ [][Next]_vars

\* The same run with the wide frontiers, where no attempt times out.
NextWide ==
    \/ RunStart
    \/ RootReturn
    \/ RootRaise
    \/ ProcessLink
    \/ Dispatch
    \/ Gather
    \/ GatherRaise
    \/ ReadBack
    \/ Return
    \/ \E k \in 1..Len(tasks) : QueryOk(k)
    \/ \E k \in 1..Len(tasks) : QueryFail(k)

SpecWide == InitWide /\ [][NextWide]_vars

\* The run whose two chunk queries are served the same key.
InitOverlap == InitRun({Overlap})

\* One run, with a network that may time out.
NextRun ==
    \/ RunStart
    \/ RootReturn
    \/ RootRaise
    \/ ProcessLink
    \/ Dispatch
    \/ Gather
    \/ GatherRaise
    \/ ReadBack
    \/ Return
    \/ \E k \in 1..Len(tasks) : QueryOk(k)
    \/ \E k \in 1..Len(tasks) : QueryTimeout(k)
    \/ \E k \in 1..Len(tasks) : SleepDone(k)
    \/ \E k \in 1..Len(tasks) : QueryFail(k)

SpecOverlap == InitOverlap /\ [][NextRun]_vars

\* The run on the graph description that branches.
InitBranch == InitRun({Branching})

SpecBranch == InitBranch /\ [][NextRun]_vars

\* The runs against servers whose pagination misbehaves.
InitPages == InitRun(PageScenarios)

SpecPages == InitPages /\ [][NextRun]_vars

(***************************************************************************)
(* SpecReads: a store filled by add() with documents that hold references  *)
(* (two Specimens of one Patient, a Specimen collected with a device, the  *)
(* device being a CodeableReference), and read between the adds.           *)
(***************************************************************************)
WithDevice(i, d) ==
    [resourceType |-> "Specimen", id |-> i,
     device |-> [concept |-> "device", reference |-> [reference |-> <<"Device", d>>]]]

ReferenceUniverse == {Spe("1", "1"), Spe("2", "1"), WithDevice("3", "1"), Pat("1")}

AddReferencing == AddFrom(ReferenceUniverse)

NextReads ==
    \/ AddReferencing
    \/ AggregateCall
    \/ CountCall
    \/ \E t \in ResourceTypes : AllResourcesCall(t)

SpecReads == InitStore /\ [][NextReads]_vars

\* Fairness of a run: the event loop runs the main coroutine when it can
\* go on, a sleep ends, and a request that waits for its answer gets one (a
\* bundle, a timeout or a failure).  AnswerDue is the enabling condition of
\* Answer, so the last conjunct is weak fairness of Answer.
MainStep ==
    \/ RunStart \/ RootReturn \/ RootRaise \/ ProcessLink \/ Dispatch
    \/ Gather \/ GatherRaise \/ ReadBack \/ Return

AnswerDue == Awaiting /\ \E k \in 1..Len(tasks) : tasks[k].st = "ready"

Answer == \E k \in 1..Len(tasks) : QueryOk(k) \/ QueryTimeout(k) \/ QueryFail(k)

FairSpec ==
    /\ Spec
    /\ WF_vars(MainStep)
    /\ WF_vars(\E k \in 1..Len(tasks) : SleepDone(k))
    /\ ([]<>(~AnswerDue) \/ []<><<Answer>>_vars)


(***************************************************************************)
(* Properties.                                                             *)
(***************************************************************************)
InFlight == Cardinality({q \in 1..Len(queries) : queries[q].status = "running"})

AnyRaised == \E k \in 1..Len(tasks) : tasks[k].st = "raised"

\* The queries dispatched so far for the link the innermost activation is at.
LinkQueries == SubSeq(queries, TopFrame.firstQuery, Len(queries))

InStore(resource) ==
    \E i \in 1..Len(rows) :
        /\ RowKey(rows[i]) = <<resource.id, resource.resourceType>>
        /\ json_loads(rows[i].resource) = resource

\* C1: on a graph description with a cycle, run terminates: process_links
\* is never entered again in a configuration it has already been entered in
\* and not left (the same frontier type with the same Visit Records and the
\* same store, from which the run can only repeat itself), and the nesting
\* of its activations never exhausts the recursion limit.
C1_CyclicRunTerminates ==
    /\ \A i, j \in 1..Len(stack) :
          (i < j /\ stack[i].parent_target_id = stack[j].parent_target_id)
             => \/ stack[i].entryVisited # stack[j].entryVisited
                \/ stack[i].entryRows # stack[j].entryRows
    /\ ~(pc = "raised" /\ error = "RecursionError")

\* C2: within one run the join key of a source resource is looked up for a
\* target type at most once: no Visit Record occurs twice in the history of
\* extractions, also on a cyclic graph where the same frontier comes back.
C2_VisitRecordOnce ==
    \A m, n \in 1..Len(extractions) :
        m # n => extractions[m].key # extractions[n].key

\* A frontier resource that already has its Visit Record was met again and
\* skipped (its join key is not among the candidates of this turn).
C2_Witness ==
    /\ pc = "dispatch"
    /\ Len(stack) >= 3
    /\ TopFrame.current_path # <<>>
    /\ \E r \in Range(TopFrame.parent_resources) :
          /\ r.resourceType = CurrentLink.sourceId
          /\ PathIn(CurrentLink.path, r)
          /\ JoinKey(CurrentLink.path, CurrentLink.sourceId, r) \notin Range(TopFrame.current_path)

\* C3: insert is idempotent and first-write-wins: every add of a document
\* that has an id and a type returns without error, leaves exactly one row
\* for its key, and the row holds the payload of the first add under that key.
HasKey(resource) ==
    /\ "id" \in DOMAIN resource
    /\ "resourceType" \in DOMAIN resource
    /\ resource.id # NoValue

SameKey(r1, r2) == r1.id = r2.id /\ r1.resourceType = r2.resourceType

C3_InsertIdempotentFirstWins ==
    \A n \in 1..Len(addLog) :
        LET r == addLog[n].resource IN
        HasKey(r) =>
            LET first == CHOOSE m \in 1..n :
                            /\ HasKey(addLog[m].resource)
                            /\ SameKey(addLog[m].resource, r)
                            /\ \A l \in 1..(m - 1) :
                                  ~(HasKey(addLog[l].resource) /\ SameKey(addLog[l].resource, r))
                mine == {i \in 1..Len(rows) : RowKey(rows[i]) = <<r.id, r.resourceType>>}
            IN /\ addLog[n].raised = ""
               /\ Cardinality(mine) = 1
               /\ \A i \in mine : json_loads(rows[i].resource) = addLog[first].resource

\* The same key was added three times, the last time with another payload.
C3_Witness ==
    /\ Len(addLog) = 3
    /\ HasKey(addLog[1].resource) /\ addLog[2] = addLog[1]
    /\ HasKey(addLog[3].resource) /\ SameKey(addLog[3].resource, addLog[1].resource)
    /\ addLog[3].resource # addLog[1].resource
    /\ Len(rows) = 1

\* C4: a query that keeps timing out is attempted exactly 3 times and
\* execute_query then returns the empty list: no activation makes more than
\* 3 attempts, one that gave up made 3 and holds no resource, a call whose
\* first page gave up returned [] without raising, and no timeout ever ends
\* the run.
C4_RetryThenGiveUp ==
    /\ \A k \in 1..Len(tasks) :
          /\ \A n \in 1..Len(tasks[k].frames) :
                LET f == tasks[k].frames[n] IN
                /\ f.attempts <= max_retry
                /\ f.gaveUp => (f.attempts = max_retry /\ f.resources = <<>>)
          /\ tasks[k].frames[1].gaveUp =>
                (tasks[k].st = "done" /\ tasks[k].result = <<>>)
          /\ tasks[k].raised \notin {"ReadTimeout", "ConnectTimeout"}
    /\ error \notin {"ReadTimeout", "ConnectTimeout"}

\* The query of the first link gave up, and the run went on to the second
\* link and returned.
C4_Witness ==
    /\ pc = "returned"
    /\ \E q \in 1..Len(queries) :
          /\ queries[q].gaveUp
          /\ queries[q].result = <<>>
          /\ \E q2 \in (q + 1)..Len(queries) : queries[q2].link # queries[q].link

\* C5: when no page is given up, a completed execute_query returns the
\* resources of all the pages of its result, first page first, and each of
\* them is in the store.
C5_PaginationComplete ==
    \A k \in 1..Len(tasks) :
        LET call == tasks[k] IN
        (call.st = "done" /\ \A n \in 1..Len(call.frames) : ~call.frames[n].gaveUp)
            => /\ call.result = Flatten(PagesFor(call.frames[1].url))
               /\ \A n \in 1..Len(call.result) : InStore(call.result[n])

\* The starting query returned its three pages.
C5_Witness ==
    /\ pc = "root_await"
    /\ tasks[1].st = "done"
    /\ Len(tasks[1].frames) = 3
    /\ tasks[1].result = <<Pat("1"), Pat("2"), Pat("3")>>

\* C6: a non-timeout failure of a query is never retried and aborts the run:
\* from the moment a task has raised, the failed call makes no further
\* attempt, no further query is dispatched, no activation of process_links
\* moves on (no link is started, finished or entered), and the only step the
\* main coroutine takes is to raise.
C6_FatalNotRetriedAborts ==
    [][AnyRaised =>
          /\ \A k \in 1..Len(tasks) : tasks[k].st = "raised" => tasks'[k] = tasks[k]
          /\ Len(queries') = Len(queries)
          /\ stack' = stack
          /\ visited' = visited
          /\ pc' \in {pc, "raised"}]_vars

\* A query of the first batch failed: the run is over with its error while
\* a chunk of the link and the second link were still to come.
C6_Witness ==
    /\ pc = "raised"
    /\ error = "HTTPStatusError"
    /\ Len(queries) = max_requests
    /\ TopFrame.c <= Len(TopFrame.chunks)
    /\ Len(stack) = 1

\* C7: once the loop over the chunks of a link is over, a candidate set of
\* n >= 1 join keys has been sent in exactly ceil(n / 50) queries, each of at
\* most 50 keys, and the queries partition the candidate set; 120 keys make
\* 3 queries.
C7_ChunksPartition ==
    (pc \in {"gather_final", "readback"} /\ Len(TopFrame.current_path) >= 1) =>
        LET n == Len(TopFrame.current_path)
            sent == LinkQueries
            keysOf(q) == sent[q].url.keys
        IN /\ (Len(sent) - 1) * chunk_size < n
           /\ n <= Len(sent) * chunk_size
           /\ \A q \in 1..Len(sent) : Len(keysOf(q)) <= chunk_size
           /\ \A v \in Range(TopFrame.current_path) :
                 Cardinality({<<q, x>> \in (1..Len(sent)) \X (1..chunk_size) :
                                 x <= Len(keysOf(q)) /\ keysOf(q)[x] = v}) = 1
           /\ \A q \in 1..Len(sent) : Range(keysOf(q)) \subseteq Range(TopFrame.current_path)
           /\ (n = 120 => Len(sent) = 3)

\* 120 join keys were sent in 3 queries.
C7_Witness ==
    /\ pc = "readback"
    /\ Len(TopFrame.current_path) = 120
    /\ Len(LinkQueries) = 3

\* C8: at most max_requests (10) queries are dispatched and not completed,
\* and a chunk is dispatched only while fewer than 10 are: every query in
\* flight at that moment belongs to the batch being filled, the 10 of a
\* full batch having all completed.
C8_ConcurrencyCeiling ==
    /\ InFlight <= max_requests
    /\ pc = "dispatch" =>
          /\ InFlight < max_requests
          /\ \A q \in 1..Len(queries) :
                queries[q].status = "running" => \E k \in 1..Len(tasks) : tasks[k].qid = q

\* Ten queries are in flight and a chunk still waits to be dispatched.
C8_Witness ==
    /\ InFlight = max_requests
    /\ pc = "gather_batch"
    /\ TopFrame.c <= Len(TopFrame.chunks)

\* C9: when the stored resources of the target type are read back, every
\* query dispatched for the link has completed, and every resource these
\* queries returned is among the resources read.
C9_BarrierBeforeReadBack ==
    (pc = "readback" /\ CurrentLink.params # "") =>
        /\ InFlight = 0
        /\ \A q \in 1..Len(LinkQueries) :
              /\ LinkQueries[q].status = "done"
              /\ Range(LinkQueries[q].result) \subseteq
                    Range(all_resources(rows, CurrentLink.targetId))

\* The read-back after two batches of queries, which returned a resource.
C9_Witness ==
    /\ pc = "readback"
    /\ Len(LinkQueries) > max_requests
    /\ \E q \in 1..Len(LinkQueries) : LinkQueries[q].result # <<>>

\* C10: a link whose candidate set is empty dispatches no query: no
\* dispatched query carries an empty list of join keys.
C10_NoQueryForEmptyCandidates ==
    \A q \in 1..Len(queries) : queries[q].url.keys # <<>>

\* C11: add on a resource that lacks 'id' or lacks 'resourceType' fails with
\* the validation error (ValueError) and leaves the rows and the per-type
\* counters as they were.
C11_MissingFieldRejected ==
    [][Len(addLog') = Len(addLog) + 1 =>
          LET call == addLog'[Len(addLog')] IN
          ("id" \notin DOMAIN call.resource \/ "resourceType" \notin DOMAIN call.resource)
             => /\ call.raised = "ValueError"
                /\ rows' = rows
                /\ adds_counters' = adds_counters]_vars

\* On a store that holds a row, one add without 'id' and one without
\* 'resourceType' were rejected.
C11_Witness ==
    /\ Len(addLog) = 3
    /\ addLog[1].raised = "" /\ Len(rows) = 1
    /\ "id" \notin DOMAIN addLog[2].resource /\ addLog[2].raised = "ValueError"
    /\ "resourceType" \notin DOMAIN addLog[3].resource /\ addLog[3].raised = "ValueError"

WellFormed(entries) ==
    SelectSeq(entries, LAMBDA r : "id" \in DOMAIN r /\ "resourceType" \in DOMAIN r)

\* The key of the resource has a row (whatever payload was stored first).
KeyStored(table, resource) ==
    \E i \in 1..Len(table) : RowKey(table[i]) = <<resource.id, resource.resourceType>>

\* C12: a resource without id or type in a query result is fatal only to its
\* own insert: no execute_query call and no run ends with the validation
\* error, and a completed call that gave up no page has returned and stored
\* every well-formed resource of all its pages.
C12_MalformedFatalOnlyToItsInsert ==
    /\ error # "ValueError"
    /\ \A k \in 1..Len(tasks) :
          LET call == tasks[k] IN
          /\ call.raised # "ValueError"
          /\ (call.st = "done" /\ \A n \in 1..Len(call.frames) : ~call.frames[n].gaveUp)
                => /\ call.result = WellFormed(Flatten(PagesFor(call.frames[1].url)))
                   /\ \A n \in 1..Len(call.result) : KeyStored(rows, call.result[n])

\* No execute_query call of the run can have given up: fewer than max_retry
\* attempts have timed out in all.
NoGiveUpPossible == MaxTimeouts - timeoutsLeft < max_retry

RunOver == pc \in {"returned", "raised"}

\* C13: the run of the 2-link graph (Patient -> Specimen by subject,
\* Specimen -> Observation by focus) against the server of 3 Patients,
\* 3 Specimens and no Observation comes to an end, and when it returns
\* without a query having given up, count_resource_types is exactly
\* {Patient: 3, Specimen: 3} and the store holds no Observation.
C13_EndToEndCounts ==
    /\ [](( /\ graph = Acyclic.graph /\ server = Acyclic.server
            /\ pc = "returned" /\ NoGiveUpPossible )
             => /\ count_resource_types(rows) = ("Patient" :> 3 @@ "Specimen" :> 3)
                /\ all_resources(rows, "Observation") = <<>>)
    /\ ((graph = Acyclic.graph /\ server = Acyclic.server) => <>RunOver)

\* The run returned after its two links, no attempt having timed out.
C13_Witness ==
    /\ graph = Acyclic.graph /\ server = Acyclic.server
    /\ pc = "returned"
    /\ timeoutsLeft = MaxTimeouts
    /\ Len(queries) = 2
    /\ Len(rows) = 6

\* The "reference" values of a document that are strings "Type/id", at any
\* depth, each once.
RECURSIVE ReferenceStringsIn(_, _, _)
ReferenceStringsIn(document, parent, keys) ==
    IF keys = {} THEN <<>>
    ELSE LET k == CHOOSE x \in keys : TRUE
             here == IF k = "reference" /\ ~IsObject(parent, k)
                     THEN <<document[k]>>
                     ELSE <<>>
             below == IF IsObject(parent, k)
                      THEN ReferenceStringsIn(document[k], k, DOMAIN document[k])
                      ELSE <<>>
         IN here \o below \o ReferenceStringsIn(document, parent, keys \ {k})

\* How many of them, in the stored resources of type T, are "R/<id>".
ReferencesTo(R, table, T) ==
    LET stored == all_resources(table, T)
        found == Flatten([i \in 1..Len(stored) |->
                            ReferenceStringsIn(stored[i], "", DOMAIN stored[i])])
    IN Cardinality({n \in 1..Len(found) : found[n][1] = R})

ReferencedTypes == ResourceTypes \cup {"Device"}

\* C14: for every stored type T, aggregate()[T].count is the number of
\* stored resources of type T and aggregate()[T].references[R].count is the
\* number of "reference" values "R/<id>" in the stored resources of type T
\* (no entry when there is none); two Specimens that each reference
\* Patient/1 give {Specimen: {count: 2, references: {Patient: {count: 2}}}}.
C14_AggregateCounts ==
    LET summary == aggregate(rows)
        StoredTypes == {rows[i].resource_type : i \in 1..Len(rows)}
        Counted(T, R) ==
            IF "references" \in DOMAIN summary[T] /\ R \in DOMAIN summary[T].references
            THEN summary[T].references[R].count
            ELSE 0
    IN /\ DOMAIN summary = StoredTypes
       /\ \A T \in StoredTypes :
             /\ summary[T].count = Cardinality({i \in 1..Len(rows) : rows[i].resource_type = T})
             /\ \A R \in ReferencedTypes : Counted(T, R) = ReferencesTo(R, rows, T)
       /\ (Range(all_resources(rows, "Specimen")) = {Spe("1", "1"), Spe("2", "1")}
             => summary["Specimen"] = [count |-> 2, references |-> ("Patient" :> [count |-> 2])])

\* C15: aggregate is a pure read: a call leaves the rows and the counters
\* of the store as they are and dispatches no query, and a call made with no
\* insert since the call before it returns the summary that call returned.
C15_AggregatePureRead ==
    [][(reads'.aggregate # reads.aggregate /\ reads'.aggregate # <<>>) =>
          /\ rows' = rows
          /\ adds_counters' = adds_counters
          /\ queries' = queries
          /\ tasks' = tasks
          /\ reads'.aggregate[1].again =>
                reads'.aggregate[1].result = reads.aggregate[1].result]_vars

\* aggregate was called twice in a row on a store of two Specimens with
\* references.
C15_Witness ==
    /\ reads.aggregate # <<>>
    /\ reads.aggregate[1].again
    /\ reads.aggregate[1].rowsSeen = 2
    /\ reads.aggregate[1].result =
          ("Specimen" :> [count |-> 2, references |-> ("Patient" :> [count |-> 2])])

\* C16: the store only grows: whatever step is taken (an add, a read of the
\* store, a step of execute_query or of run), every row is still there after
\* it, under its key and with its payload.
C16_StoreOnlyGrows ==
    [][\A i \in 1..Len(rows) :
          \E j \in 1..Len(rows') :
              /\ RowKey(rows'[j]) = RowKey(rows[i])
              /\ rows'[j].resource = rows[i].resource]_vars

\* Specimen/1 was stored, the server served another payload under its key,
\* the store was read, and run was called a second time and is over.
C16_Witness ==
    /\ server = Malformed.server
    /\ previous # <<>>
    /\ pc = "raised"
    /\ InStore(Spe("1", "1"))
    /\ reads.count_resource_types # <<>>
    /\ reads.aggregate # <<>>

\* C17: a link without params is a pass-through.  Processing it dispatches
\* no query, creates no task and adds no Visit Record; the stored resources
\* of its target type are read back next, and when that type has links of
\* its own process_links is entered for it with exactly these resources as
\* the frontier.
C17_PassThroughLink ==
    [][/\ (pc = "link" /\ TopFrame.i <= Len(TopFrame.links) /\ CurrentLink.params = "")
          => /\ pc' = "readback"
             /\ queries' = queries
             /\ tasks' = tasks
             /\ visited' = visited
             /\ extractions' = extractions
             /\ stack' = stack
       /\ (/\ pc = "readback" /\ CurrentLink.params = ""
           /\ LinksFrom(graph, CurrentLink.targetId) # <<>>
           /\ Len(stack) < MaxDepth)
          => /\ pc' = "link"
             /\ Len(stack') = Len(stack) + 1
             /\ SubSeq(stack', 1, Len(stack)) = stack
             /\ stack'[Len(stack')].parent_target_id = CurrentLink.targetId
             /\ stack'[Len(stack')].parent_resources =
                   all_resources(rows, CurrentLink.targetId)
             /\ stack'[Len(stack')].links = LinksFrom(graph, CurrentLink.targetId)
             /\ stack'[Len(stack')].i = 1]_vars

\* The link ResearchStudy -> Patient was passed through: no query has been
\* dispatched, and the activation entered for Patient has found the join
\* keys of the two stored Patients.
C17_Witness ==
    /\ graph = PassThrough.graph
    /\ pc = "dispatch"
    /\ Len(stack) = 2
    /\ graph[stack[1].links[stack[1].i]].params = ""
    /\ TopFrame.parent_target_id = "Patient"
    /\ TopFrame.current_path = << <<"Patient", "1">>, <<"Patient", "2">> >>
    /\ queries = <<>>
    /\ visited = {<<"Patient", "1", "Specimen">>, <<"Patient", "2", "Specimen">>}

\* C18: the progress reporter is not observable in the result.  Every step
\* that processes a link is, apart from what the reporter is told, the same
\* step with a reporter and without one (no other step reads the spinner
\* argument), so that the runs with and without a reporter dispatch the same
\* queries and leave the same store; and without a reporter nothing is
\* reported.
C18_ReporterNotObservable ==
    [][/\ (pc = "link" /\ TopFrame.i <= Len(TopFrame.links))
          => (LinkStep(TRUE) <=> LinkStep(FALSE))
       /\ spinner' = spinner
       /\ (~spinner => reported' = <<>>)]_vars

\* A run without a reporter has dispatched the queries of its two links and
\* returned; the reporter was told nothing.
C18_Witness ==
    /\ ~spinner
    /\ graph = Acyclic.graph
    /\ pc = "returned"
    /\ Len(queries) = 2
    /\ count_resource_types(rows) = ("Patient" :> 3 @@ "Specimen" :> 3)
    /\ reported = <<>>

UniqueKeys(table) ==
    \A i, j \in 1..Len(table) : RowKey(table[i]) = RowKey(table[j]) => i = j

RowsOfType(table, T) == {i \in 1..Len(table) : table[i].resource_type = T}

\* C19: an aborted run rolls nothing back.  The step that ends a run with an
\* error, and every step taken while the run is over with its error, leaves
\* the rows and the counters as they are; the store holds one row per key;
\* and the reads made then answer over these rows: count_resource_types
\* counts them by type, all_resources returns the documents of the rows of
\* the type, and aggregate counts every stored type.
C19_AbortKeepsStore ==
    [][pc' = "raised" =>
          /\ rows' = rows
          /\ adds_counters' = adds_counters
          /\ UniqueKeys(rows')
          /\ reads'.count_resource_types # <<>> =>
                LET counts == reads'.count_resource_types[1].result IN
                /\ DOMAIN counts = {rows[i].resource_type : i \in 1..Len(rows)}
                /\ \A T \in DOMAIN counts : counts[T] = Cardinality(RowsOfType(rows, T))
          /\ reads'.all_resources # <<>> =>
                LET answer == reads'.all_resources[1] IN
                /\ Len(answer.result) = Cardinality(RowsOfType(rows, answer.resource_type))
                /\ \A n \in 1..Len(answer.result) : InStore(answer.result[n])
          /\ reads'.aggregate # <<>> =>
                LET summary == reads'.aggregate[1].result IN
                /\ DOMAIN summary = {rows[i].resource_type : i \in 1..Len(rows)}
                /\ \A T \in DOMAIN summary :
                      summary[T].count = Cardinality(RowsOfType(rows, T))]_vars

\* The query of a link failed on its second page: the run is over with the
\* error, the Patients and the Specimens of the first page are stored, and
\* the three reads have answered.
C19_Witness ==
    /\ pc = "raised"
    /\ error = "ConnectError"
    /\ count_resource_types(rows) = ("Patient" :> 3 @@ "Specimen" :> 2)
    /\ reads.count_resource_types # <<>>
    /\ reads.aggregate # <<>>
    /\ reads.all_resources # <<>>
    /\ reads.all_resources[1].result = <<Spe("1", "1"), Spe("2", "2")>>

\* The network has not misbehaved since construction: no timeout and no
\* fatal error has been drawn from what the run's server may produce.
Undisturbed ==
    \E sc \in Scenarios :
        /\ sc.graph = graph /\ sc.startPath = startPath /\ sc.server = server
        /\ timeoutsLeft = sc.timeouts
        /\ fatalsLeft = sc.fatals

Urls(calls) == [n \in 1..Len(calls) |-> calls[n].url]

IsPrefix(s, t) == Len(s) <= Len(t) /\ SubSeq(t, 1, Len(s)) = s

\* C20: the Visit Record set is per run.  Every call of run starts with an
\* empty set, whatever the run before has left; the rows of the run before
\* stay in the store, in place; at the first link of a second run every
\* frontier resource of the link's source type that holds the path has its
\* join key among the keys of the link; and a second run over an undisturbed
\* network ends as the first did, having extracted the same join keys and
\* issued the same queries, on the store contents of the first run.
C20_VisitRecordsPerRun ==
    /\ [][pc = "start" /\ pc' # "start" => visited' = {}]_vars
    /\ [](previous # <<>> => IsPrefix(previous[Len(previous)].rows, rows))
    /\ [][(/\ previous # <<>>
           /\ pc = "link" /\ pc' = "dispatch"
           /\ Len(stack) = 1 /\ TopFrame.i = 1)
          => \A n \in 1..Len(TopFrame.parent_resources) :
                LET r == TopFrame.parent_resources[n] IN
                (r.resourceType = CurrentLink.sourceId /\ PathIn(CurrentLink.path, r))
                   => \E m \in 1..Len(stack'[1].current_path) :
                        stack'[1].current_path[m] =
                           JoinKey(CurrentLink.path, CurrentLink.sourceId, r)]_vars
    /\ []((previous # <<>> /\ Undisturbed /\ pc \in {"returned", "raised"})
          => LET first == previous[Len(previous)] IN
             /\ pc = first.outcome
             /\ error = first.error
             /\ extractions = first.extractions
             /\ Urls(queries) = Urls(first.queries)
             /\ rows = first.rows)

\* A second run of the three-page scenario has returned over an undisturbed
\* network: its join keys were extracted and its queries issued again.
C20_Witness ==
    /\ previous # <<>>
    /\ previous[1].outcome = "returned"
    /\ pc = "returned"
    /\ Undisturbed
    /\ graph = Acyclic.graph
    /\ Len(extractions) = Len(rows)
    /\ \A n \in 1..Len(rows) : \E m \in 1..Len(extractions) :
          extractions[m].key[1] = rows[n].resource_type /\ extractions[m].key[2] = rows[n].id
    /\ queries # <<>>
    /\ count_resource_types(rows) = ("Patient" :> 3 @@ "Specimen" :> 3)

\* The (id, type) keys of type T that add() was called with and did not
\* raise on.
InsertedKeys(T) ==
    {<<addLog[n].resource.id, T>> :
        n \in {m \in 1..Len(addLog) :
                 /\ addLog[m].raised = ""
                 /\ addLog[m].resource.resourceType = T}}

\* C21: the store's queries agree in every reachable state.  For every type
\* T the count count_resource_types gives for T (T is missing from it when
\* there is none) is the number of resources all_resources(T) returns, which
\* is the number of distinct (id, T) keys ever successfully inserted; one id
\* under two types is two rows.
C21_StoreQueriesAgree ==
    \A T \in ResourceTypes :
       LET counts == count_resource_types(rows)
           listed == all_resources(rows, T)
       IN /\ Len(listed) = Cardinality(InsertedKeys(T))
          /\ IF T \in DOMAIN counts
             THEN counts[T] = Len(listed)
             ELSE listed = <<>>
          /\ \A n \in 1..Len(listed) : listed[n].resourceType = T

\* Id "1" is stored under two types, and one of the adds found its key
\* already stored.
C21_Witness ==
    /\ Len(all_resources(rows, "Patient")) = 1
    /\ Len(all_resources(rows, "Specimen")) = 1
    /\ all_resources(rows, "Patient")[1].id = all_resources(rows, "Specimen")[1].id
    /\ Len(addLog) > Len(rows)
    /\ \A n \in 1..Len(addLog) : addLog[n].raised = ""

\* The link at position `l` of the graph description has already looked up
\* the join key of the resource r in this run.
ProcessedBy(l, r) ==
    \E m \in 1..Len(extractions) :
        /\ extractions[m].link = l
        /\ extractions[m].key[1] = r.resourceType
        /\ extractions[m].key[2] = r.id

\* C22: visit bookkeeping is per link.  When a link with params is
\* processed, every frontier resource of its source type that holds the path
\* and that this same link has not processed before has its join key among
\* the keys the link queries with, whatever other links to the same target
\* type have processed.
C22_VisitPerLink ==
    [][(pc = "link" /\ pc' = "dispatch")
          => \A n \in 1..Len(TopFrame.parent_resources) :
                LET r == TopFrame.parent_resources[n]
                    l == TopFrame.links[TopFrame.i]
                IN (/\ r.resourceType = graph[l].sourceId
                    /\ PathIn(graph[l].path, r)
                    /\ ~ProcessedBy(l, r))
                   => JoinKey(graph[l].path, graph[l].sourceId, r)
                         \in Range(stack'[Len(stack)].current_path)]_vars

\* The frontier resources a link takes a join key from: those of the link's
\* source type that have no Visit Record for the link's target type and
\* hold the path.
Contributors(link, frontier, seen) ==
    {n \in 1..Len(frontier) :
        /\ frontier[n].resourceType = link.sourceId
        /\ <<frontier[n].resourceType, frontier[n].id, link.targetId>> \notin seen
        /\ PathIn(link.path, frontier[n])}

\* The value of the path on a resource, and the value as the candidate set
\* holds it.
Qualified(link, resource) ==
    LET value == ValueAt(resource, link.path, 2) IN
    IF link.path[Len(link.path)] = "id" THEN <<link.sourceId, value>> ELSE value

\* C23: for a link with params (and a path), one step of process_links
\* raises nothing and builds a candidate set that holds, once each, the
\* values of the path over the frontier resources of the source type that
\* have no Visit Record yet and hold the path, a value of a path ending in
\* ".id" prefixed with the source type; the other frontier resources
\* contribute nothing.
C23_CandidateSet ==
    [][(/\ pc = "link"
        /\ TopFrame.i <= Len(TopFrame.links)
        /\ HasParams(CurrentLink)
        /\ CurrentLink.path # <<>>)
          => LET link == CurrentLink
                 frontier == TopFrame.parent_resources
                 current_path == stack'[Len(stack)].current_path
             IN /\ pc' = "dispatch"
                /\ Range(current_path) =
                      {Qualified(link, frontier[n]) :
                          n \in Contributors(link, frontier, visited)}
                /\ \A a, b \in 1..Len(current_path) :
                      current_path[a] = current_path[b] => a = b]_vars

\* The link from Specimen has been processed on a frontier of four
\* Specimens, two of one Patient and one without a subject, and a Patient:
\* two join keys were found.
C23_Witness ==
    /\ graph = Converge.graph
    /\ pc = "dispatch"
    /\ Len(stack) = 1
    /\ Len(TopFrame.parent_resources) = Len(Converge.server.root[1])
    /\ TopFrame.current_path = << <<"Patient", "1">>, <<"Patient", "2">> >>

\* The types that can be a frontier type: the source type of the first link
\* and the target types of the links.
FrontierTypes ==
    {graph[1].sourceId} \cup {graph[l].targetId : l \in 1..Len(graph)}

\* The links that have been processed or are to be: those an activation
\* has selected, and those with a query or an extraction.
ProcessedLinks ==
    UNION {Range(stack[d].links) : d \in 1..Len(stack)}
       \cup {queries[q].link : q \in 1..Len(queries)}
       \cup {extractions[m].link : m \in 1..Len(extractions)}

\* C24: link selection.  The outermost activation of process_links has the
\* source type of the first link for its frontier type and was entered
\* with no Visit Record, whatever the starting query returned; every
\* activation goes through exactly the links whose source type is its
\* frontier type, in the order of the graph description; a link whose
\* source type is never a frontier type is never processed.  Without a
\* starting query no root request is made and the first frontier is empty.
C24_LinkSelection ==
    /\ stack # <<>> =>
          /\ stack[1].parent_target_id = graph[1].sourceId
          /\ stack[1].entryVisited = {}
    /\ \A d \in 1..Len(stack) :
          LET f == stack[d] IN
          /\ Range(f.links) = {l \in 1..Len(graph) : graph[l].sourceId = f.parent_target_id}
          /\ \A a, b \in 1..Len(f.links) : a < b => f.links[a] < f.links[b]
    /\ \A l \in 1..Len(graph) :
          graph[l].sourceId \notin FrontierTypes => l \notin ProcessedLinks
    /\ startPath = "" =>
          /\ pc # "root_await"
          /\ \A k \in 1..Len(tasks) : tasks[k].qid # 0
          /\ stack # <<>> => stack[1].parent_resources = <<>>

\* The run of the graph whose last link starts from a type that is never
\* fetched has returned, its starting query having returned two types: the
\* two other links have queried.
C24_Witness ==
    /\ graph = Converge.graph
    /\ pc = "returned"
    /\ {queries[q].link : q \in 1..Len(queries)} = {1, 2}
    /\ {rows[n].resource_type : n \in 1..Len(rows)} = {"Specimen", "Patient"}

\* The run without a starting query is in its outermost activation.
C24_NoStartReached ==
    /\ startPath = ""
    /\ Len(stack) = 1
    /\ pc = "dispatch"

\* The documents of the rows of type T, in storage order.
RECURSIVE StoredOfType(_, _)
StoredOfType(T, n) ==
    IF n = 0 THEN <<>>
    ELSE IF rows[n].resource_type = T
    THEN Append(StoredOfType(T, n - 1), json_loads(rows[n].resource))
    ELSE StoredOfType(T, n - 1)

\* C25: when a link has been processed, process_links recurses if and only
\* if some link of the graph description has the link's target type for
\* its source type (the recursion fails when the recursion limit is
\* reached), and the frontier of the new activation is every resource of
\* the target type the store holds at that moment, whichever query has
\* fetched it.
C25_ReadBackFrontier ==
    [][pc = "readback" =>
          LET target == CurrentLink.targetId
              further == \E l \in 1..Len(graph) : graph[l].sourceId = target
          IN /\ (further /\ Len(stack) < MaxDepth) =>
                   /\ Len(stack') = Len(stack) + 1
                   /\ stack'[Len(stack')].parent_target_id = target
                   /\ stack'[Len(stack')].parent_resources = StoredOfType(target, Len(rows))
             /\ (further /\ Len(stack) >= MaxDepth) =>
                   pc' = "raised" /\ error' = "RecursionError"
             /\ ~further =>
                   /\ Len(stack') = Len(stack)
                   /\ pc' = "link"
                   /\ stack'[Len(stack)].i = TopFrame.i + 1]_vars

\* The link from Specimen to Patient has queried and returned two
\* Patients; the activation entered for Patient has these and, before
\* them, the Patient the starting query had fetched.
C25_Witness ==
    /\ graph = Converge.graph
    /\ Len(stack) > 1
    /\ Len(queries) = 1
    /\ queries[1].result = <<Pat("1"), Pat("2")>>
    /\ stack[Len(stack)].parent_target_id = "Patient"
    /\ stack[Len(stack)].parent_resources = <<Pat("9"), Pat("1"), Pat("2")>>

\* C26: the timed-out attempts of one query are separated by the fixed
\* delay.  Every wait of an activation of execute_query lasts 5 units and
\* follows a timed-out attempt, and the waits lie between the attempts: an
\* activation that is over has waited once less than it has attempted, so
\* one that exhausted its 3 attempts has waited twice.
C26_WaitsBetweenAttempts ==
    \A k \in 1..Len(tasks) : \A n \in 1..Len(tasks[k].frames) :
       LET f == tasks[k].frames[n] IN
       /\ f.waited = f.sleeps * sleep_seconds
       /\ f.sleeps <= f.attempts
       /\ tasks[k].st = "done" => f.sleeps = f.attempts - 1
       /\ f.gaveUp => f.sleeps = max_retry - 1

\* The same, for the activations that did not give up.
C26_ExceptGiveUp ==
    \A k \in 1..Len(tasks) : \A n \in 1..Len(tasks[k].frames) :
       LET f == tasks[k].frames[n] IN
       /\ f.waited = f.sleeps * sleep_seconds
       /\ f.sleeps <= f.attempts
       /\ (tasks[k].st = "done" /\ ~f.gaveUp) => f.sleeps = f.attempts - 1
       /\ f.gaveUp => f.sleeps = max_retry

\* The activation n of the call has returned from a successful attempt.
Succeeded(call, n) ==
    /\ ~call.frames[n].gaveUp
    /\ \/ n < Len(call.frames)
       \/ call.st = "done"

\* C27: an activation of execute_query whose first k attempts (k = 1 or 2)
\* timed out and whose next attempt succeeded has asked for the same URL
\* k + 1 times and no more, holds the whole page of the successful attempt,
\* and each resource of the page is stored in one row and was counted as
\* added once.
C27_RecoveredQuery ==
    \A c \in 1..Len(tasks) : \A n \in 1..Len(tasks[c].frames) :
       LET call == tasks[c]
           f == call.frames[n]
       IN (Succeeded(call, n) /\ f.sleeps \in 1..(max_retry - 1)) =>
             /\ f.attempts = f.sleeps + 1
             /\ Len(f.requests) = f.attempts
             /\ \A a \in 1..Len(f.requests) : f.requests[a] = f.url
             /\ f.resources = Response(f.url).entry
             /\ \A e \in 1..Len(f.resources) :
                   Cardinality({i \in 1..Len(rows) :
                       RowKey(rows[i]) = <<f.resources[e].id, f.resources[e].resourceType>>}) = 1
             /\ \A e \in 1..Len(f.resources) :
                   LET T == f.resources[e].resourceType IN
                   adds_counters[T] = Cardinality(RowsOfType(rows, T))

\* The starting query has returned its three pages, one of them after one
\* timed-out attempt and another after two.
C27_Witness ==
    /\ pc = "root_await"
    /\ tasks[1].st = "done"
    /\ \E n1, n2 \in 1..Len(tasks[1].frames) :
          /\ tasks[1].frames[n1].sleeps = 1
          /\ tasks[1].frames[n2].sleeps = max_retry - 1
    /\ tasks[1].result = Flatten(server.root)
    /\ Len(rows) = Len(tasks[1].result)

\* C28: a link that has params but no path is not fatal.  Whatever the
\* frontier holds, the step that processes it raises no error and ends with
\* an empty candidate set, and the activation goes on.
C28_LinkWithoutPathNotFatal ==
    [][(/\ pc = "link"
        /\ TopFrame.i <= Len(TopFrame.links)
        /\ HasParams(CurrentLink)
        /\ CurrentLink.path = <<>>)
          => /\ pc' # "raised"
             /\ error' = error
             /\ stack'[Len(stack)].current_path = <<>>]_vars

\* What the server serves for the URL of a call, all pages.
Served(call) == Flatten(PagesFor(call.frames[1].url))

\* C29: two queries in flight at once (or two pages of them) return a
\* resource with the same (id, type) key.  No insert raises on the key that
\* is already stored and no task fails of it; the store has one row for the
\* key, and the row is the one of the insert that ran first, no later
\* insert changing it; and each task (that did not give up on timeouts)
\* returns everything it was served, the resource that was already stored
\* included.
C29_ConcurrentSameKey ==
    /\ [](/\ error # "IntegrityError"
          /\ \A c \in 1..Len(tasks) : tasks[c].raised # "IntegrityError")
    /\ [](UniqueKeys(rows))
    /\ [][IsPrefix(rows, rows')]_vars
    /\ [](\A c \in 1..Len(tasks) :
            (/\ tasks[c].st = "done"
             /\ \A n \in 1..Len(tasks[c].frames) : ~tasks[c].frames[n].gaveUp) =>
               /\ tasks[c].result = Served(tasks[c])
               /\ \A e \in 1..Len(tasks[c].result) :
                     LET r == tasks[c].result[e] IN
                     \E i \in 1..Len(rows) : RowKey(rows[i]) = <<r.id, r.resourceType>>)

\* The two chunk queries are over; each has returned its version of
\* Specimen/1 and the store holds the version of the second query, whose
\* insert ran first.
C29_Witness ==
    /\ Len(tasks) > 1
    /\ \A c \in 1..Len(tasks) : tasks[c].st = "done"
    /\ Versioned(Spe("1", "1"), "a") \in Range(tasks[1].result)
    /\ Versioned(Spe("1", "1"), "b") \in Range(tasks[Len(tasks)].result)
    /\ all_resources(rows, "Specimen")[1] = Versioned(Spe("1", "1"), "b")
    /\ Len(all_resources(rows, "Specimen")) = Len(Served(tasks[1])) + 1

\* The same with the inserts in the other order.
C29_OtherOrder ==
    /\ Len(tasks) > 1
    /\ \A c \in 1..Len(tasks) : tasks[c].st = "done"
    /\ Versioned(Spe("1", "1"), "b") \in Range(tasks[Len(tasks)].result)
    /\ InStore(Versioned(Spe("1", "1"), "a"))

\* C30: run on a graph description that has no link at all ends with an
\* error instead of completing silently: the run never returns, it comes
\* to an end, and it ends raising IndexError (the first link is looked up
\* in an empty list), no activation of process_links having been entered.
C30_NoLinkEndsWithError ==
    /\ [](graph = <<>> =>
            /\ pc # "returned"
            /\ stack = <<>>
            /\ pc = "raised" => error = "IndexError")
    /\ (graph = <<>> => <>(pc = "raised"))

\* The run on the graph description without links has ended with the
\* error, after its starting query has stored what it returned.
C30_Witness ==
    /\ graph = <<>>
    /\ startPath # ""
    /\ pc = "raised"
    /\ error = "IndexError"
    /\ Len(rows) = Len(NoLinks.server.root[1])

\* The number of rows of type T.
CountOf(table, T) == Cardinality(RowsOfType(table, T))

\* C31: the per-type counter adds_counters[T] goes up by one with every add
\* that stores a new row of type T and is left as it is by an add that finds
\* its key already stored or that raises; so, the store having started
\* empty, adds_counters[T] is in every reachable state the count that
\* count_resource_types gives for T (none, T being missing from it, when
\* the counter is 0).
C31_CounterFollowsRows ==
    /\ [](\A T \in ResourceTypes :
            LET counts == count_resource_types(rows) IN
            IF T \in DOMAIN counts
            THEN adds_counters[T] = counts[T]
            ELSE adds_counters[T] = 0)
    /\ [][\A T \in ResourceTypes :
            /\ adds_counters'[T] - adds_counters[T] = CountOf(rows', T) - CountOf(rows, T)
            /\ Len(addLog') = Len(addLog) + 1 =>
                 LET call == addLog'[Len(addLog')]
                     stored == /\ call.raised = ""
                               /\ ~(\E i \in 1..Len(rows) :
                                      RowKey(rows[i]) =
                                         <<call.resource.id, call.resource.resourceType>>)
                 IN IF stored /\ call.resource.resourceType = T
                    THEN /\ adds_counters'[T] = adds_counters[T] + 1
                         /\ Len(rows') = Len(rows) + 1
                    ELSE /\ adds_counters'[T] = adds_counters[T]
                         /\ stored \/ rows' = rows]_vars

\* add() has stored a row, has found a key already stored, and has raised
\* on a document that lacks a field; the counter of the type stands at one.
C31_Witness ==
    /\ Len(addLog) = 3
    /\ Len(rows) = 1
    /\ addLog[1].raised = "" /\ addLog[2].raised = ""
    /\ addLog[3].raised = "ValueError"
    /\ adds_counters["Patient"] = 1
    /\ count_resource_types(rows) = ("Patient" :> 1)

\* An activation of the call has used up its attempts.
Exhausted(call) == \E i \in 1..Len(call.frames) : call.frames[i].gaveUp

\* Every activation of the call but the innermost got a bundle with a
\* "next" link, and the activation below it asks for that link.
FollowsNext(call) ==
    \A i \in 1..(Len(call.frames) - 1) :
        Response(call.frames[i].url).next = <<call.frames[i + 1].url>>

C32_LimitReached ==
    \E k \in 1..Len(tasks) :
        /\ Loops(tasks[k].frames[1].url)
        /\ tasks[k].raised = "RecursionError"

\* C33: the retry budget is per page.  Every activation of execute_query
\* (one per page) counts its own timeouts from 0: it makes at most 3
\* attempts, it gives up only after 3 attempts of its own have timed out,
\* whatever the pages before it have used, and an activation that has gone
\* on to the next page got its bundle within its 3 attempts.  So a query
\* none of whose pages used up its attempts returns all pages, also when
\* every page has timed out twice.
C33_RetryBudgetPerPage ==
    \A k \in 1..Len(tasks) :
        LET call == tasks[k] IN
        /\ \A i \in 1..Len(call.frames) :
              LET f == call.frames[i] IN
              /\ f.attempts <= max_retry
              /\ f.retry = f.sleeps
              /\ f.retry <= f.attempts
              /\ f.gaveUp <=> f.retry = max_retry
              /\ f.gaveUp => f.attempts = max_retry
              /\ i < Len(call.frames) => f.attempts = f.retry + 1 /\ f.retry < max_retry
        /\ (call.st = "done" /\ ~Exhausted(call) /\ ~Loops(call.frames[1].url)) =>
              /\ Len(call.frames) = IF PagesFor(call.frames[1].url) = <<>>
                                    THEN 1
                                    ELSE Len(PagesFor(call.frames[1].url))
              /\ call.result = Served(call)

\* Both pages of the starting query have timed out twice and then answered:
\* six requests, and the query has returned both pages.
C33_Witness ==
    /\ tasks # <<>>
    /\ tasks[1].qid = 0
    /\ tasks[1].st = "done"
    /\ Len(tasks[1].frames) = 2
    /\ \A i \in 1..2 : tasks[1].frames[i].retry = max_retry - 1
                       /\ tasks[1].frames[i].attempts = max_retry
    /\ tasks[1].result = <<Pat("1"), Pat("2")>>
    /\ Len(rows) >= 2

\* The entries of the bundles the activations before the innermost one got.
FetchedBefore(call) ==
    Flatten([i \in 1..(Len(call.frames) - 1) |-> Response(call.frames[i].url).entry])

\* C34: when a later page of a query uses up its 3 attempts, the query
\* returns, without an error, the resources of the pages fetched before
\* that page (not the empty list); these resources are in the store, and
\* the page that gave up and the pages after it were never got: nothing of
\* them is in what the query returns.
C34_LaterPageGivesUp ==
    \A k \in 1..Len(tasks) :
        LET call == tasks[k]
            n == Len(call.frames)
        IN (call.st = "done" /\ n > 1 /\ Top(call).gaveUp) =>
              /\ call.raised = ""
              /\ call.result = FetchedBefore(call)
              /\ call.result # <<>>
              /\ \A r \in Range(call.result) : InStore(r)
              /\ Top(call).resources = <<>>
              /\ \A i \in 1..n : call.frames[i].url.page <= n
              /\ ~Loops(call.frames[1].url) =>
                    \A p \in n..Len(PagesFor(call.frames[1].url)) :
                        Range(PagesFor(call.frames[1].url)[p]) \cap Range(call.result) = {}

\* The second of the three pages of the starting query has given up: the
\* query has returned the first page, which is stored, and the run goes on
\* with it; the Patients of the second and third page are not stored.
C34_Witness ==
    /\ pc = "link"
    /\ tasks # <<>>
    /\ tasks[1].qid = 0
    /\ tasks[1].st = "done"
    /\ Len(tasks[1].frames) = 2
    /\ Top(tasks[1]).gaveUp
    /\ Len(PagesFor(tasks[1].frames[1].url)) = 3
    /\ tasks[1].result = <<Pat("1")>>
    /\ stack[1].parent_resources = <<Pat("1")>>
    /\ InStore(Pat("1")) /\ ~InStore(Pat("2")) /\ ~InStore(Pat("3"))

\* The link at position l takes its join key from the id of the source
\* resource: the key <<type, id>> names the source resource.
IdLink(l) == graph[l].path # <<>> /\ graph[l].path[Len(graph[l].path)] = "id"

\* The Visit Records of the source resources whose join key the query of
\* such a link carries.
SourcesOf(q) == {<<key[1], key[2], q.url.target>> : key \in Range(q.url.keys)}

\* The stored resource of a Visit Record holds `key` at the path of link l.
Yields(record, l, key) ==
    \E i \in 1..Len(rows) :
        /\ RowKey(rows[i]) = <<record[2], record[1]>>
        /\ PathIn(graph[l].path, json_loads(rows[i].resource))
        /\ JoinKey(graph[l].path, graph[l].sourceId, json_loads(rows[i].resource)) = key

\* C35: a Visit Record is added before the query for it is dispatched and
\* is never removed during the run.  Every join key of a query that is
\* dispatched comes from a source resource whose Visit Record is already
\* there; the Visit Records only grow while the run lasts, whatever the
\* queries do; so a source resource is not queried again for the same
\* target type later in the run, also when the query that carried its join
\* key has given up, and its join key is not looked up again when it lacks
\* the path.
C35_VisitRecordStays ==
    /\ [][pc # "start" => visited \subseteq visited']_vars
    /\ [][Len(queries') > Len(queries) =>
            LET q == queries'[Len(queries')] IN
            /\ \A key \in Range(q.url.keys) :
                  \E m \in 1..Len(extractions) :
                      /\ extractions[m].link = q.link
                      /\ extractions[m].key \in visited
                      /\ extractions[m].key[3] = q.url.target
                      /\ Yields(extractions[m].key, q.link, key)
            /\ IdLink(q.link) => SourcesOf(q) \subseteq visited]_vars
    /\ [](\A m \in 1..Len(extractions) : extractions[m].key \in visited)
    /\ [](\A a, b \in 1..Len(queries) :
            (/\ a < b
             /\ queries[a].url.target = queries[b].url.target
             /\ IdLink(queries[a].link) /\ IdLink(queries[b].link)
             /\ graph[queries[a].link].sourceId = graph[queries[b].link].sourceId)
            => SourcesOf(queries[a]) \cap SourcesOf(queries[b]) = {})
    /\ [](\A m, n \in 1..Len(extractions) :
            (m < n /\ extractions[m].key = extractions[n].key) => FALSE)

\* The query that carried the join keys of Patient 1 and 2 to the Specimens
\* has given up; the Patients have come back in a later frontier, from which
\* a later query for Specimens has been dispatched, without their keys.
C35_Witness ==
    /\ pc \in {"dispatch", "gather_final"}
    /\ Len(queries) >= 3
    /\ queries[1].gaveUp
    /\ queries[1].url.target = "Specimen"
    /\ queries[1].url.keys = << <<"Patient", "1">>, <<"Patient", "2">> >>
    /\ queries[Len(queries)].url.target = "Specimen"
    /\ queries[Len(queries)].url.keys # <<>>
    /\ Pat("1") \in Range(TopFrame.parent_resources)
    /\ Pat("2") \in Range(TopFrame.parent_resources)

\* C36: links are processed strictly one after another, depth first.  A
\* query is over before any query of another link, or of another
\* activation, is dispatched: the queries in flight are those of one link
\* of one activation.  An activation moves to its next link only when no
\* activation below it is left, and it does so with the frontier and the
\* links it was entered with.
C36_LinksOneAfterAnother ==
    /\ [](\A b, c \in 1..Len(queries) :
            (/\ b < c
             /\ \/ queries[b].link # queries[c].link
                \/ queries[b].depth # queries[c].depth)
            => queries[b].status # "running")
    /\ [](\A a \in 1..Len(queries) :
            queries[a].status = "running" =>
               /\ stack # <<>>
               /\ queries[a].depth = Len(stack)
               /\ queries[a].link = TopFrame.links[TopFrame.i]
               /\ a >= TopFrame.firstQuery)
    /\ [][\A d \in 1..Min(Len(stack), Len(stack')) :
            /\ stack'[d].parent_resources = stack[d].parent_resources
            /\ stack'[d].links = stack[d].links
            /\ stack'[d].i \in {stack[d].i, stack[d].i + 1}
            /\ stack'[d].i # stack[d].i => Len(stack') = d /\ Len(stack) <= d + 1]_vars

\* The two chunk queries of the second link from Patient are in flight,
\* for the 51 Patients the first link was given; the queries of the first
\* link and the query of the link below it are over.
C36_Witness ==
    /\ pc = "gather_final"
    /\ Len(stack) = 1
    /\ TopFrame.i = 2
    /\ TopFrame.parent_resources = ManyPatients(chunk_size + 1)
    /\ Len(tasks) = 2
    /\ \A k \in 1..2 : tasks[k].st = "ready" /\ queries[tasks[k].qid].status = "running"
    /\ \E a \in 1..Len(queries) :
          /\ queries[a].depth = 2
          /\ queries[a].status = "done"
          /\ graph[queries[a].link] = SpecimenToObservation
    /\ InFlight = 2

\* The types that the links of g lead to from the types of S, and the types
\* reached from S in 1..n steps along sourceId -> targetId.
Successors(g, S) == {g[i].targetId : i \in {j \in 1..Len(g) : g[j].sourceId \in S}}

RECURSIVE ReachedIn(_, _, _)
ReachedIn(g, S, n) ==
    IF n = 0 THEN {}
    ELSE Successors(g, S) \cup ReachedIn(g, Successors(g, S), n - 1)

\* No type reaches itself through the links of g.
AcyclicGraph(g) ==
    \A i \in 1..Len(g) : g[i].sourceId \notin ReachedIn(g, {g[i].sourceId}, Len(g))

\* C37: on a graph description whose links form no cycle, against a server
\* whose pagination chains are finite, run terminates (it returns, or an
\* error ends it) whatever the queries do, succeed, time out or return
\* nothing: the activations of process_links never nest deeper than there
\* are links, the run never ends for want of recursion depth, and every run
\* that is started comes to its end.
C37_AcyclicRunTerminates ==
    /\ [](AcyclicGraph(graph) =>
            /\ Len(stack) <= Len(graph)
            /\ error # "RecursionError"
            /\ \A k \in 1..Len(tasks) :
                  Len(tasks[k].frames) <= Len(PagesFor(tasks[k].frames[1].url)) + 1)
    /\ ((AcyclicGraph(graph) /\ pc = "start") ~> RunOver)

\* A run on an acyclic graph has returned after queries that timed out, one
\* of them giving up, and a query that returned nothing.
C37_Witness ==
    /\ AcyclicGraph(graph)
    /\ graph # <<>>
    /\ pc = "returned"
    /\ timeoutsLeft = 0
    /\ \E a \in 1..Len(queries) : queries[a].gaveUp
    /\ \E a \in 1..Len(queries) : ~queries[a].gaveUp /\ queries[a].result = <<>>
    /\ \E a \in 1..Len(queries) : queries[a].result # <<>>

\* C38: retry exhaustion is observable in the log.  An activation of
\* execute_query that has given up has handed a record to the logging
\* module on its final attempt, the one whose timeout made it give up.
C38_GiveUpIsLogged ==
    \A k \in 1..Len(tasks) :
        \A i \in 1..Len(tasks[k].frames) :
            LET f == tasks[k].frames[i] IN
            f.gaveUp => \E n \in 1..Len(f.log) : f.log[n].attempt = max_retry

\* What the log holds at most: with debug the "Querying" record of every
\* attempt, and never a record of a timeout.
C38_OnlyQueryingRecords ==
    \A k \in 1..Len(tasks) :
        \A i \in 1..Len(tasks[k].frames) :
            LET f == tasks[k].frames[i] IN
            /\ Len(f.log) = IF debug THEN f.attempts ELSE 0
            /\ \A n \in 1..Len(f.log) : f.log[n].event = "Querying"

====
